---------------------------- MODULE Spec2Model ----------------------------
(***************************************************************************)
(* A model of the portfolio chatbot's request handler                      *)
(* (src/lambda/index.js, first handler variant, lines 1-741) and of its    *)
(* lexical scorer (src/lambda/simple-rag.js).                              *)
(*                                                                         *)
(* Strings are sequences of one-character strings, so that the regular     *)
(* expressions, splits, slices and trims of the code are computed on       *)
(* characters as the code computes them.  A string constant is written     *)
(* as a tuple of its characters; a character that cannot be written in a   *)
(* TLA+ string is written by name ("backtick", "e_acute", "emdash").       *)
(***************************************************************************)
EXTENDS Integers, Sequences, FiniteSets, TLC

(***************************************************************************)
(* Characters and elementary string functions                              *)
(***************************************************************************)
LowerLetters == {"a","b","c","d","e","f","g","h","i","j","k","l","m",
                 "n","o","p","q","r","s","t","u","v","w","x","y","z"}
UpperLetters == {"A","B","C","D","E","F","G","H","I","J","K","L","M",
                 "N","O","P","Q","R","S","T","U","V","W","X","Y","Z"}
Digits == {"0","1","2","3","4","5","6","7","8","9"}
Letters == LowerLetters \cup UpperLetters
\* \w of a JavaScript regular expression
WordChars == Letters \cup Digits \cup {"_"}
\* \s of a JavaScript regular expression (the members that occur in the model)
SpaceChars == {" ", "\n", "\t", "\r"}

SetMin(S) == CHOOSE x \in S : \A y \in S : x <= y
SetMax(S) == CHOOSE x \in S : \A y \in S : x >= y
\* the members of a set of positions, in ascending order
RECURSIVE AscendingIn(_, _, _)
AscendingIn(S, lo, hi) ==
  IF lo > hi THEN << >>
  ELSE IF lo = hi THEN (IF lo \in S THEN <<lo>> ELSE << >>)
  ELSE AscendingIn(S, lo, (lo + hi) \div 2)
       \o AscendingIn(S, (lo + hi) \div 2 + 1, hi)

Ascending(S, n) == CHOOSE r \in {AscendingIn(x, 1, n) : x \in {S}} : TRUE

\* Array.prototype.filter: the elements of seq at the positions of keep
Pick(seq, keep) ==
  CHOOSE r \in {[m \in 1..Len(idx) |-> seq[idx[m]]] :
                  idx \in {Ascending(keep, Len(seq))}} : TRUE

DigitSeq == <<"0","1","2","3","4","5","6","7","8","9">>
UpperSeq == <<"A","B","C","D","E","F","G","H","I","J","K","L","M","N","O","P","Q","R","S","T","U","V","W","X","Y","Z">>
LowerSeq == <<"a","b","c","d","e","f","g","h","i","j","k","l","m","n","o","p","q","r","s","t","u","v","w","x","y","z">>

\* String.prototype.toLowerCase on one character
LowerCh(c) ==
  IF c \in UpperLetters
    THEN LowerSeq[CHOOSE k \in 1..26 : UpperSeq[k] = c]
    ELSE c

\* String.prototype.toLowerCase
Lower(s) == [k \in 1..Len(s) |-> LowerCh(s[k])]

\* String.prototype.slice(a, b) with 0 <= a, counted in characters from 0
Slice(s, a, b) ==
  LET e == IF b < Len(s) THEN b ELSE Len(s)
  IN  IF a >= e THEN << >> ELSE SubSeq(s, a + 1, e)

\* String.prototype.trim
TrimLeft(s) ==
  LET kept == {k \in 1..Len(s) : s[k] \notin SpaceChars}
  IN  IF kept = {} THEN << >> ELSE SubSeq(s, SetMin(kept), Len(s))

TrimRight(s) ==
  LET kept == {k \in 1..Len(s) : s[k] \notin SpaceChars}
  IN  IF kept = {} THEN << >> ELSE SubSeq(s, 1, SetMax(kept))

\* (x is the value of the argument, computed once before the call)
Trim(s) == CHOOSE r \in {TrimRight(TrimLeft(x)) : x \in {s}} : TRUE

\* String.prototype.startsWith / endsWith / includes
StartsWith(s, p) == Len(p) <= Len(s) /\ SubSeq(s, 1, Len(p)) = p
EndsWith(s, p) == Len(p) <= Len(s) /\ SubSeq(s, Len(s) - Len(p) + 1, Len(s)) = p
Includes(s, p) ==
  \E i \in 1..(Len(s) - Len(p) + 1) : SubSeq(s, i, i + Len(p) - 1) = p

\* Array.prototype.join
RECURSIVE JoinRange(_, _, _, _)
JoinRange(parts, sep, a, b) ==
  IF a > b THEN << >>
  ELSE IF a = b THEN parts[a]
  ELSE LET h == (a + b) \div 2
       IN  JoinRange(parts, sep, a, h) \o sep \o JoinRange(parts, sep, h + 1, b)

Join(parts, sep) ==
  CHOOSE r \in {JoinRange(x, sep, 1, Len(x)) : x \in {parts}} : TRUE

\* Array.prototype.filter(Boolean) / map(s => s.trim()) on arrays of strings
SelectNonEmpty(parts) == Pick(parts, {k \in 1..Len(parts) : parts[k] # << >>})

TrimAll(parts) == [k \in 1..Len(parts) |-> Trim(parts[k])]

\* String.prototype.split on a one-character separator
Between(s, hits) ==
  [k \in 1..(Len(hits) + 1) |->
     SubSeq(s, IF k = 1 THEN 1 ELSE hits[k - 1] + 1,
               IF k = Len(hits) + 1 THEN Len(s) ELSE hits[k] - 1)]

SplitChar(s, sep) ==
  CHOOSE r \in {Between(x, Ascending({i \in 1..Len(x) : x[i] = sep}, Len(x))) :
                  x \in {s}} : TRUE

(***************************************************************************)
(* Regular expressions.  A pattern is a record [t, a]; Ends(re, s, i) is    *)
(* the set of positions at which a match of re that starts at position i   *)
(* of s can end (position i is "before s[i]").  Patterns flagged /i are    *)
(* written in lower case and matched against Lower(s).                     *)
(***************************************************************************)
\* the line terminators of a JavaScript regular expression
LineBreaks == {"\n", "\r"}
Lit(x)   == [t |-> "lit",  a |-> x]     \* literal text
Cls(x)   == [t |-> "cls",  a |-> x]     \* [...]  one character of a set
NCls(x)  == [t |-> "ncls", a |-> x]     \* [^...] one character outside a set
Cat(x)   == [t |-> "cat",  a |-> x]     \* concatenation
Alt(x)   == [t |-> "alt",  a |-> x]     \* alternation  a|b|c
Opt(x)   == [t |-> "opt",  a |-> x]     \* x?
Star(x)  == [t |-> "star", a |-> x]     \* x*
Plus(x)  == [t |-> "plus", a |-> x]     \* x+
WB       == [t |-> "wb",   a |-> 0]     \* \b
Bos      == [t |-> "bos",  a |-> 0]     \* ^ without the m flag
Eos      == [t |-> "eos",  a |-> 0]     \* $ without the m flag
Bol      == [t |-> "bol",  a |-> 0]     \* ^ with the m flag
Eol      == [t |-> "eol",  a |-> 0]     \* $ with the m flag
Dot      == NCls(LineBreaks)            \* .
Sp       == Cls(SpaceChars)             \* \s
NonSp    == NCls(SpaceChars)            \* \S
AnyCh    == NCls({})                    \* [\s\S]
\* an alternation of literals
Lits(xs) == Alt([k \in 1..Len(xs) |-> Lit(xs[k])])

AtWordBoundary(s, i) ==
  LET before == i > 1 /\ s[i - 1] \in WordChars
      after  == i <= Len(s) /\ s[i] \in WordChars
  IN  before # after

\* a pattern of one character, and the end of the run of such characters
\* that starts at position i
IsOneChar(re) == re.t \in {"cls", "ncls"}
Accepts(re, c) == IF re.t = "cls" THEN c \in re.a ELSE c \notin re.a
RunEnd(re, s, i) ==
  SetMin({j \in i..(Len(s) + 1) : j = Len(s) + 1 \/ ~Accepts(re, s[j])})

RECURSIVE Ends(_, _, _)
RECURSIVE EndsCat(_, _, _, _)
RECURSIVE EndsStar(_, _, _, _)

Ends(re, s, i) ==
  CASE re.t = "lit"  -> IF i + Len(re.a) - 1 <= Len(s)
                           /\ SubSeq(s, i, i + Len(re.a) - 1) = re.a
                          THEN {i + Len(re.a)} ELSE {}
    [] re.t = "cls"  -> IF i <= Len(s) /\ s[i] \in re.a THEN {i + 1} ELSE {}
    [] re.t = "ncls" -> IF i <= Len(s) /\ s[i] \notin re.a THEN {i + 1} ELSE {}
    [] re.t = "cat"  -> EndsCat(re.a, 1, s, {i})
    [] re.t = "alt"  -> UNION {Ends(re.a[k], s, i) : k \in 1..Len(re.a)}
    [] re.t = "opt"  -> {i} \cup Ends(re.a, s, i)
    [] re.t = "star" -> IF IsOneChar(re.a) THEN i..RunEnd(re.a, s, i)
                                            ELSE EndsStar(re.a, s, {i}, {i})
    [] re.t = "plus" -> IF IsOneChar(re.a) THEN (i + 1)..RunEnd(re.a, s, i)
                        ELSE LET f == Ends(re.a, s, i) IN EndsStar(re.a, s, f, f)
    [] re.t = "wb"   -> IF AtWordBoundary(s, i) THEN {i} ELSE {}
    [] re.t = "bos"  -> IF i = 1 THEN {i} ELSE {}
    [] re.t = "eos"  -> IF i = Len(s) + 1 THEN {i} ELSE {}
    [] re.t = "bol"  -> IF i = 1 \/ s[i - 1] \in LineBreaks THEN {i} ELSE {}
    [] re.t = "eol"  -> IF i = Len(s) + 1 \/ s[i] \in LineBreaks THEN {i} ELSE {}

\* the ends of res[k] res[k+1] ... started at any position of `from`
EndsCat(res, k, s, from) ==
  IF k > Len(res) \/ from = {} THEN from
  ELSE EndsCat(res, k + 1, s, UNION {Ends(res[k], s, j) : j \in from})

\* the closure of `seen` under one more match of re from the `fresh` positions
EndsStar(re, s, fresh, seen) ==
  IF fresh = {} THEN seen
  ELSE LET next == UNION {Ends(re, s, j) : j \in fresh} \ seen
       IN  EndsStar(re, s, next, seen \cup next)

\* RegExp.prototype.test: the pattern matches somewhere in s
Test(re, s) ==
  \E x \in {s} : \E i \in 1..(Len(x) + 1) : Ends(re, x, i) # {}
\* the same for a pattern with the i flag
TestI(re, s) == Test(re, Lower(s))

\* the leftmost position from `from` on at which re matches, 0 when there is none
FirstOf(hits) == IF hits = {} THEN 0 ELSE SetMin(hits)
FirstMatch(re, s, from) == FirstOf({i \in from..(Len(s) + 1) : Ends(re, s, i) # {}})

(***************************************************************************)
(* Documents and the document store                                        *)
(*                                                                         *)
(* A JSON array entry is a document {title, content, source} (an absent    *)
(* field and an empty string behave alike in every expression of the code: *)
(* d.title || '', d.content || '', d.source || '') or the JSON value null. *)
(***************************************************************************)
Doc(t, c, s) == [null |-> FALSE, title |-> t, content |-> c, source |-> s]
NullEntry == [null |-> TRUE, title |-> << >>, content |-> << >>, source |-> << >>]

CONFIG_SOURCE == <<"c","o","n","f","i","g",".","j","s">>
DATA_KEY == <<"p","o","r","t","f","o","l","i","o","-","d","o","c","u","m","e","n","t","s",".","j","s","o","n">>
DATA_PREFIX == <<"r","a","g","-","d","a","t","a","/">>

\* the key of the deduplication: title.trim() + '::' + content.slice(0, 40)
DedupePrefixLen == 40
MutDedupeKey(d) == Trim(d.title) \o <<":",":">>
DedupeKey(d) == Trim(d.title) \o <<":",":">> \o Slice(d.content, 0, DedupePrefixLen)

\* for (const d of docs) { ... if (!seen.has(k)) { seen.add(k); unique.push(d); } }
RECURSIVE DedupeFrom(_, _, _)
DedupeFrom(docs, k, seen) ==
  IF k > Len(docs) THEN << >>
  ELSE LET key == DedupeKey(docs[k])
       IN  IF key \in seen
             THEN DedupeFrom(docs, k + 1, seen)
             ELSE <<docs[k]>> \o DedupeFrom(docs, k + 1, seen \cup {key})

Dedupe(docs) == DedupeFrom(docs, 1, {})

\* d.title of a null entry raises a TypeError inside the deduplication loop,
\* which no try block of loadPortfolioDocsFromS3 encloses
DedupeThrows(docs) == \E k \in 1..Len(docs) : docs[k].null

\* what JSON.parse(text) of a stored object contributes to docs:
\*   a malformed text is logged and skipped, an array is spread, a single
\*   object is pushed when it has a title or a content
ParsedDocs(body) ==
  CASE body.kind = "badjson" -> << >>
    [] body.kind = "array"   -> body.items
    [] body.kind = "object"  ->
         IF body.items[1].title # << >> \/ body.items[1].content # << >>
           THEN body.items ELSE << >>
    [] OTHER -> << >>

\* (key.split('.').pop() || '').toLowerCase()
KeyExt(key) ==
  LET parts == SplitChar(key, ".") IN Lower(parts[Len(parts)])

\* key.replace(DATA_PREFIX, ''): the first occurrence only
StripPrefix(key) ==
  LET hits == {i \in 1..(Len(key) - Len(DATA_PREFIX) + 1) :
                 SubSeq(key, i, i + Len(DATA_PREFIX) - 1) = DATA_PREFIX}
  IN  IF hits = {} THEN key
      ELSE LET i == SetMin(hits)
           IN  SubSeq(key, 1, i - 1) \o SubSeq(key, i + Len(DATA_PREFIX), Len(key))

\* the listing loop's two `continue` conditions
MutSkippedKey(key) == FALSE
SkippedKey(key) ==
  \/ key = << >>
  \/ EndsWith(key, <<"/">>)
  \/ key = DATA_KEY
  \/ EndsWith(key, <<"/">> \o DATA_KEY)

\* what a successfully read object under the prefix contributes to docs
ObjectDocs(obj) ==
  LET ext == KeyExt(obj.key)
  IN  IF ext = <<"j","s","o","n">> THEN ParsedDocs(obj.body)
      ELSE IF ext \in {<<"t","x","t">>, <<"m","d">>}
        THEN <<Doc(StripPrefix(obj.key), obj.body.text, <<"s","3",":">> \o obj.key)>>
      ELSE << >>

(***************************************************************************)
(* String.prototype.replace                                                *)
(*                                                                         *)
(* A replacement is [keep, l, r, v]: when keep is FALSE the match is       *)
(* replaced by the constant v; when keep is TRUE by the matched text       *)
(* without its first l and its last r characters (the '$1' / '$2' of a     *)
(* pattern whose group is the match minus fixed delimiters).               *)
(* `greedy` tells whether the pattern's quantifiers make the longest       *)
(* (TRUE) or the shortest (FALSE) match at the leftmost position.          *)
(***************************************************************************)
With(v) == [keep |-> FALSE, l |-> 0, r |-> 0, v |-> v]
Inner(l, r) == [keep |-> TRUE, l |-> l, r |-> r, v |-> << >>]

Replacement(rep, s, i, e) ==
  IF rep.keep THEN SubSeq(s, i + rep.l, e - 1 - rep.r) ELSE rep.v

\* the longest (greedy) or the shortest of the matches that start at i
Extreme(ends, greedy) == IF greedy THEN SetMax(ends) ELSE SetMin(ends)
MatchEnd(re, s, i, greedy) == Extreme(Ends(re, s, i), greedy)

\* the text from `from` up to the match [i, e), then what replaces the match
Replaced(s, rep, from, i, e) == SubSeq(s, from, i - 1) \o Replacement(rep, s, i, e)

\* s.replace(/re/g, rep) from position `from` on.  The pattern is matched on
\* `low`, which is s, or Lower(s) for a pattern with the i flag; after an
\* empty match the search resumes one character further
RECURSIVE ReplaceFrom(_, _, _, _, _, _)
RECURSIVE ReplaceAt(_, _, _, _, _, _, _)
RECURSIVE ReplaceMatch(_, _, _, _, _, _, _, _)
ReplaceFrom(re, rep, greedy, s, low, from) ==
  ReplaceAt(re, rep, greedy, s, low, from, FirstMatch(re, low, from))

ReplaceAt(re, rep, greedy, s, low, from, i) ==
  IF i = 0 THEN SubSeq(s, from, Len(s))
  ELSE ReplaceMatch(re, rep, greedy, s, low, from, i, MatchEnd(re, low, i, greedy))

ReplaceMatch(re, rep, greedy, s, low, from, i, e) ==
  Replaced(s, rep, from, i, e)
  \o (IF e > i THEN ReplaceFrom(re, rep, greedy, s, low, e)
      ELSE IF i <= Len(s) THEN <<s[i]>> \o ReplaceFrom(re, rep, greedy, s, low, i + 1)
      ELSE << >>)

\* (x is the value of the text, computed once before the call)
ReplaceAll(re, rep, greedy, s) ==
  CHOOSE r \in {ReplaceFrom(re, rep, greedy, x, x, 1) : x \in {s}} : TRUE

ReplaceAllI(re, rep, greedy, s) ==
  CHOOSE r \in {ReplaceFrom(re, rep, greedy, x, Lower(x), 1) : x \in {s}} : TRUE

\* s.replace(/re/, rep): the leftmost match only
ReplaceOnceMatch(s, rep, i, e) == Replaced(s, rep, 1, i, e) \o SubSeq(s, e, Len(s))

ReplaceOnceAt(re, rep, greedy, s, low, i) ==
  IF i = 0 THEN s ELSE ReplaceOnceMatch(s, rep, i, MatchEnd(re, low, i, greedy))

ReplaceOnce(re, rep, greedy, s, low) ==
  ReplaceOnceAt(re, rep, greedy, s, low, FirstMatch(re, low, 1))

ReplaceFirst(re, rep, greedy, s) ==
  CHOOSE r \in {ReplaceOnce(re, rep, greedy, x, x) : x \in {s}} : TRUE

ReplaceFirstI(re, rep, greedy, s) ==
  CHOOSE r \in {ReplaceOnce(re, rep, greedy, x, Lower(x)) : x \in {s}} : TRUE

\* s.replace(/(d1|d2)(.*?)\1/g, '$2'): an opening delimiter, the shortest
\* text without a line break, the same delimiter again; the text is kept
DelimiterAt(s, i, delims) ==
  {d \in delims : i + Len(d) - 1 <= Len(s) /\ SubSeq(s, i, i + Len(d) - 1) = d}

ClosingAt(s, i, d) ==
  {j \in (i + Len(d))..(Len(s) - Len(d) + 1) :
     /\ SubSeq(s, j, j + Len(d) - 1) = d
     /\ \A k \in (i + Len(d))..(j - 1) : s[k] \notin LineBreaks}

\* the opening delimiters at i that are closed further on the line
OpenAt(s, i, delims) == {d \in DelimiterAt(s, i, delims) : ClosingAt(s, i, d) # {}}

RECURSIVE UnwrapFrom(_, _, _)
RECURSIVE UnwrapAt(_, _, _, _)
RECURSIVE UnwrapPair(_, _, _, _, _)
UnwrapFrom(delims, s, from) ==
  UnwrapAt(delims, s, from, FirstOf({i \in from..Len(s) : OpenAt(s, i, delims) # {}}))

UnwrapAt(delims, s, from, i) ==
  IF i = 0 THEN SubSeq(s, from, Len(s))
  ELSE UnwrapPair(delims, s, from, i, CHOOSE d \in OpenAt(s, i, delims) : TRUE)

UnwrapPair(delims, s, from, i, d) ==
  SubSeq(s, from, i - 1)
  \o SubSeq(s, i + Len(d), SetMin(ClosingAt(s, i, d)) - 1)
  \o UnwrapFrom(delims, s, SetMin(ClosingAt(s, i, d)) + Len(d))

Unwrap(delims, s) == CHOOSE r \in {UnwrapFrom(delims, x, 1) : x \in {s}} : TRUE

\* s.split(/(?<=[.!?])\s+/): cut at every run of white space that directly
\* follows '.', '!' or '?'
SentenceEndChars == {".", "!", "?"}

SentenceCuts(s) ==
  {i \in 2..Len(s) : s[i] \in SpaceChars /\ s[i - 1] \in SentenceEndChars}

SplitAt(s, cuts) ==
  [k \in 1..(Len(cuts) + 1) |->
     SubSeq(s, IF k = 1 THEN 1 ELSE RunEnd(Sp, s, cuts[k - 1]),
               IF k = Len(cuts) + 1 THEN Len(s) ELSE cuts[k] - 1)]

SplitSentences(s) ==
  CHOOSE r \in {SplitAt(x, Ascending(SentenceCuts(x), Len(x))) : x \in {s}} : TRUE

\* s.split('\n')
SplitLines(s) == SplitChar(s, "\n")

(***************************************************************************)
(* stripMarkdown and ensureSentenceEnds (src/lambda/index.js:74-103)        *)
(***************************************************************************)
FenceRe == Cat(<<Lit(<<"backtick","backtick","backtick">>), Star(AnyCh), Lit(<<"backtick","backtick","backtick">>)>>)
InlineCodeRe ==
  Cat(<<Lit(<<"backtick">>), Plus(NCls({"backtick"})), Lit(<<"backtick">>)>>)
Hash == Lit(<<"#">>)
HeadingRe ==
  Cat(<<Bol, Star(Cls({" ", "\t"})),
        Hash, Opt(Hash), Opt(Hash), Opt(Hash), Opt(Hash), Opt(Hash),
        Plus(Sp), Star(Dot), Eol>>)
BlockquoteRe == Cat(<<Bol, Lit(<<">">>), Opt(Sp)>>)
ListMarkerRe ==
  Cat(<<Bol, Star(Cls({"\t", " "})),
        Alt(<<Cls({"-", "*", "+"}), Cat(<<Plus(Cls(Digits)), Lit(<<".">>)>>)>>),
        Plus(Sp)>>)
RuleOf(c) == Cat(<<Lit(<<c, c, c>>), Star(Lit(<<c>>))>>)
HorizontalRuleRe == Cat(<<Bol, Alt(<<RuleOf("-"), RuleOf("*"), RuleOf("_")>>), Eol>>)
PipeRe == Lit(<<"|">>)
CarriageReturnRe == Lit(<<"\r">>)

\* index.js:75-95, the last replacement applied first
stripMarkdown(s) ==
  Trim(Join(SelectNonEmpty(TrimAll(SplitLines(
    ReplaceAll(CarriageReturnRe, With(<<" ">>), TRUE,
    ReplaceAll(PipeRe, With(<<" ">>), TRUE,
    ReplaceAll(HorizontalRuleRe, With(<< >>), TRUE,
    Unwrap({<<"*">>, <<"_">>},
    Unwrap({<<"*","*">>, <<"_","_">>},
    ReplaceAll(ListMarkerRe, With(<< >>), TRUE,
    ReplaceAll(BlockquoteRe, With(<< >>), TRUE,
    ReplaceAll(HeadingRe, With(<<" ">>), TRUE,
    ReplaceAll(InlineCodeRe, Inner(1, 1), TRUE,
    ReplaceAll(FenceRe, With(<<" ">>), FALSE, s))))))))))))), <<" ">>))

EndSentence(t) ==
  IF t # << >> /\ t[Len(t)] \in SentenceEndChars THEN t ELSE t \o <<".">>

ensureSentenceEnds(text) ==
  CHOOSE r \in {IF x = << >> THEN x ELSE EndSentence(Trim(x)) : x \in {text}} : TRUE

(***************************************************************************)
(* detectLanguage (src/lambda/index.js:105-122).  An accented character    *)
(* is one element of a string, written by name.                            *)
(***************************************************************************)
AccentChars == {"a_grave", "a_circ", "c_cedil", "e_acute", "e_grave", "e_circ",
                "e_uml", "i_circ", "i_uml", "o_circ", "u_grave", "u_circ",
                "u_uml", "y_uml", "oe_lig", "ae_lig"}

FrenchWordRe ==
  Cat(<<WB, Alt(<<Lit(<<"b","o","n","j","o","u","r">>), Lit(<<"s","a","l","u","t">>),
                  Cat(<<Lit(<<"f","r","a","n">>), Cls({"c", "c_cedil"}), Lit(<<"a","i","s">>)>>)>>), WB>>)

frHints ==
  << <<"b","o","n","j","o","u","r">>, <<"s","a","l","u","t">>, <<"m","e","r","c","i">>, <<"s","'","i","l">>, <<"s", "rsquo", "i", "l">>, <<"s","v","p">>,
     <<"c","o","m","m","e","n","t">>, <<"v","o","u","s">>, <<"t","u">>, <<"e_circ", "t", "e", "s">>, <<"e","t","r","e">>, <<"e","s","t","-","c","e">>,
     <<"q","u","e","l">>, <<"q","u","e","l","l","e">>, <<"q","u","e","l","s">>, <<"q","u","e","l","l","e","s">>, <<"o", "u_grave">>, <<"p","o","u","r","q","u","o","i">>,
     <<"p","a","r","l","e","z">>, <<"f", "r", "a", "n", "c_cedil", "a", "i", "s">>, <<"f","r","a","n","c","a","i","s">>,
     <<"t","a","r","i","f">>, <<"t","a","r","i","f","s">>, <<"p","r","i","x">>,
     <<"d","i","s","p","o","n","i","b","i","l","i","t">> \o <<"e_acute">>, <<"d","i","s","p","o","n","i","b","i","l","i","t","e">>, <<"p","r","o","j","e","t">>, <<"p","r","o","j","e","t","s">>,
     <<"c","o","m","p">> \o <<"e_acute">> \o <<"t","e","n","c","e">>, <<"c","o","m","p","e","t","e","n","c","e">>,
     <<"c","e","r","t","i","f","i","c","a","t","i","o","n">>, <<"c","o","l","l","a","b","o","r","e","r">>, <<"e","m","b","a","u","c","h","e","r">>, <<"c","o","n","t","a","c","t","e","r">>, <<"c","o","n","t","a","c","t","e">>,
     <<"a","i","d","e">> >>

FrenchThreshold == 2

detectLanguage(userMessage) ==
  LET msg == Lower(userMessage)
      hasAccents == \E k \in 1..Len(msg) : msg[k] \in AccentChars
      score == Cardinality({k \in 1..Len(frHints) : Includes(msg, frHints[k])})
               + (IF hasAccents THEN 1 ELSE 0)
  IN  IF msg = << >> THEN "en"
      ELSE IF Test(FrenchWordRe, msg) THEN "fr"
      ELSE IF score >= FrenchThreshold THEN "fr" ELSE "en"

(***************************************************************************)
(* The intent predicates of the handler, in the order of the code          *)
(***************************************************************************)
SP1 == Plus(Sp)
SP0 == Star(Sp)
AgentWords == Lits(<< <<"a","i">>, <<"a","s","s","i","s","t","a","n","t">>, <<"c","h","a","t","b","o","t">>, <<"a","g","e","n","t">> >>)

GreetingRe ==
  Lits(<< <<"h","i">>, <<"h","e","l","l","o">>, <<"h","e","y">>, <<"g","r","e","e","t","i","n","g","s">>, <<"b","o","n","j","o","u","r">>, <<"s","a","l","u","t">>, <<"c","o","u","c","o","u">> >>)
QuestionWordRe ==
  Lits(<< <<"w","h","a","t">>, <<"w","h","o">>, <<"w","h","e","r","e">>, <<"h","o","w">>, <<"w","h","e","n">>, <<"c","e","r","t">>, <<"s","k","i","l","l">>, <<"p","r","o","j","e","c","t">> >>)

\* index.js:362
isGreeting(m) == TestI(GreetingRe, m) /\ ~TestI(QuestionWordRe, m)

AgentNameRe ==
  Alt(<<
    Cat(<<Opt(Cat(<<Lit(<<"w","h","a","t">>), SP1, Lit(<<"i","s">>), SP1>>)),
          Opt(Cat(<<Lit(<<"t","h","e">>), SP1>>)),
          Lit(<<"n","a","m","e">>), SP1, Lit(<<"o","f">>), SP1,
          Opt(Cat(<<Lit(<<"t","h","e">>), SP1>>)), AgentWords, WB>>),
    Cat(<<WB, AgentWords, WB, Star(Dot), WB, Lit(<<"n","a","m","e">>), WB>>),
    Cat(<<WB, Lit(<<"w","h","a","t">>), SP1, Lit(<<"i","s">>), SP1, Lit(<<"y","o","u","r">>), SP1,
          Lit(<<"n","a","m","e">>), WB>>) >>)

\* index.js:389
wantsAgentName(m) == TestI(AgentNameRe, m)

AboutRe ==
  Alt(<<
    Cat(<<Lit(<<"t","e","l","l">>), SP1, Lit(<<"m","e">>), SP1, Lit(<<"a","b","o","u","t">>), SP1,
          Alt(<<Lit(<<"o","u","s","s","e","i","n","i">>), Lit(<<"y","o","u">>),
                Cat(<<Lit(<<"t","h","e">>), SP1, Lits(<< <<"o","w","n","e","r">>, <<"a","u","t","h","o","r">> >>)>>)>>)>>),
    Cat(<<Lit(<<"w","h","o">>), SP1, Lit(<<"i","s">>), SP1,
          Alt(<<Lit(<<"o","u","s","s","e","i","n","i">>), Cat(<<Lit(<<"t","h","e">>), SP1, Lit(<<"o","w","n","e","r">>)>>),
                Cat(<<Lit(<<"t","h","e">>), SP1, Lit(<<"a","u","t","h","o","r">>)>>)>>)>>),
    Cat(<<Lit(<<"a","b","o","u","t">>), SP1, Lits(<< <<"o","u","s","s","e","i","n","i">>, <<"y","o","u">> >>)>>) >>)

\* index.js:408
wantsAbout(m) == TestI(AboutRe, m)

AIWordRe == Cat(<<WB, Lits(<< <<"a","i">>, <<"a","r","t","i","f","i","c","i","a","l"," ","i","n","t","e","l","l","i","g","e","n","c","e">> >>), WB>>)
CertWordRe ==
  Cat(<<WB, Lits(<< <<"c","e","r","t">>, <<"c","e","r","t","i","f">>, <<"c","e","r","t","i","f","i","c","a","t","e">>, <<"c","e","r","t","i","f","i","c","a","t","i","o","n">> >>),
        Opt(Lit(<<"s">>)), WB>>)

\* index.js:437
wantsAICerts(m) == TestI(AIWordRe, m) /\ TestI(CertWordRe, m)

CertificationWordRe == Cat(<<WB, Lit(<<"c","e","r","t","i","f","i","c","a","t","i","o","n">>), Opt(Lit(<<"s">>)), WB>>)

\* index.js:468
wantsCerts(m) == TestI(CertificationWordRe, m)

ContactRe ==
  Alt(<<Cat(<<WB, Lit(<<"c","o","n","t","a","c","t">>), WB>>),
        Cat(<<Lit(<<"r","e","a","c","h">>), SP1, Lits(<< <<"h","i","m">>, <<"o","u","t">> >>)>>),
        Cat(<<Lit(<<"g","e","t">>), SP1, Lit(<<"i","n">>), SP1, Lit(<<"t","o","u","c","h">>)>>),
        Lit(<<"e","m","a","i","l">>), Lit(<<"h","i","r","e">>), Lit(<<"p","r","i","c","i","n","g">>), Lit(<<"r","a","t","e">>),
        Lit(<<"a","v","a","i","l","a","b","i","l","i","t","y">>),
        Cat(<<Lit(<<"c","o","l","l","a","b","o","r","a","t">>), Lits(<< <<"e">>, <<"i","o","n">> >>)>>),
        Lit(<<"b","o","o","k">>), Lit(<<"s","c","h","e","d","u","l","e">>)>>)
ContactFrRe ==
  Alt(<<Lit(<<"c","o","n","t","a","c","t","e","r">>), Lit(<<"p","r","i","x">>), Lit(<<"t","a","r","i","f">>), Lit(<<"t","a","r","i","f","s">>),
        Cat(<<Lit(<<"d","i","s","p","o","n","i","b","i","l","i","t">>), Plus(Cls(WordChars))>>),
        Lit(<<"c","o","l","l","a","b","o","r","e","r">>), Lit(<<"e","m","b","a","u","c","h","e","r">>)>>)

\* index.js:492-493
MutWantsContact(m) == TestI(Cat(<<WB, Lit(<<"c","o","n","t","a","c","t">>), WB>>), m)
wantsContact(m) == TestI(ContactRe, m) \/ TestI(ContactFrRe, m)

teachingRe ==
  Lits(<< <<"t","e","a","c","h">>, <<"i","n","s","t","r","u","c","t">>, <<"t","r","a","i","n">>, <<"m","e","n","t","o","r">>, <<"l","e","c","t","u","r","e">>, <<"w","o","r","k","s","h","o","p">>,
          <<"c","o","u","r","s","e">>, <<"c","l","a","s","s">>, <<"u","n","i","v","e","r","s","i","t","y">>, <<"a","c","a","d","e","m","y">> >>)

\* index.js:506-507
wantsTeaching(m) == TestI(teachingRe, m)

SkillsRe ==
  Alt(<<Cat(<<WB, Lit(<<"s","k","i","l","l">>), Opt(Lit(<<"s">>)), WB>>),
        Cat(<<WB, Lit(<<"s","k","i","l","l","s","e","t">>), WB>>),
        Cat(<<WB, Lit(<<"s","t","a","c","k">>), WB>>),
        Cat(<<Lit(<<"t","e","c","h","n","o","l","o","g">>), Lits(<< <<"y">>, <<"i","e","s">> >>)>>),
        Lit(<<"t","o","o","l","i","n","g">>),
        Cat(<<WB, Lit(<<"t","e","c","h">>), SP0, Lit(<<"s","t","a","c","k">>), WB>>),
        Lit(<<"c","o","m","p">> \o <<"e_acute">> \o <<"t","e","n","c","e">>), Lit(<<"c","o","m","p","e","t","e","n","c","e">>),
        Lit(<<"c","o","m","p">> \o <<"e_acute">> \o <<"t","e","n","c","e","s">>), Lit(<<"c","o","m","p","e","t","e","n","c","e","s">>)>>)

\* index.js:529
wantsSkills(m) == TestI(SkillsRe, m)

AIProjectWordRe ==
  Alt(<<Cat(<<WB, Lit(<<"a","i">>), WB>>), Lit(<<"a","r","t","i","f","i","c","i","a","l"," ","i","n","t","e","l","l","i","g","e","n","c","e">>)>>)
ProjectWordRe == Lits(<< <<"p","r","o","j","e","c","t">>, <<"w","o","r","k">>, <<"b","u","i","l","t">>, <<"d","o","n","e">>, <<"e","x","p","e","r","i","e","n","c","e">> >>)

\* index.js:560
wantsAIProjects(m) == TestI(AIProjectWordRe, m) /\ TestI(ProjectWordRe, m)

(***************************************************************************)
(* The direct answers.  Each is << found, message >>: found is FALSE when  *)
(* the code falls through to the checks below it.                          *)
(***************************************************************************)
\* (portfolioDocs || []).filter(d => String(d.source || '').toLowerCase() === 'config.js')
ConfigOnly(docs) ==
  Pick(docs, {k \in 1..Len(docs) : Lower(docs[k].source) = CONFIG_SOURCE})

\* arr.sort((a, b) => b.content.length - a.content.length)[0]: the sort is
\* stable, so the first of the longest documents
Longest(docs) ==
  docs[SetMin({k \in 1..Len(docs) :
                 \A j \in 1..Len(docs) : Len(docs[j].content) <= Len(docs[k].content)})]

TakeFirst(seq, n) == SubSeq(seq, 1, IF Len(seq) < n THEN Len(seq) ELSE n)

SummaryMaxLen == 600

\* index.js:418-426 and 513-518: the summary of the chosen sentences, or of
\* the first two sentences when that summary is too long
OrShorter(summary, sents) ==
  IF Len(summary) > SummaryMaxLen
    THEN stripMarkdown(Join(TakeFirst(sents, 2), <<" ">>))
    ELSE summary

Summarise(preferred, sents) ==
  ensureSentenceEnds(
    OrShorter(stripMarkdown(Join(TakeFirst(preferred, 3), <<" ">>)), sents))

NotFound == <<FALSE, << >> >>
Found(message) == <<TRUE, message>>

AboutTitles == {<<"a","b","o","u","t">>, <<"s","u","m","m","a","r","y">>}
BioCueRe ==
  Cat(<<WB, Lits(<< <<"i"," ","a","m">>, <<"c","l","o","u","d">>, <<"a","i">>, <<"c","o","n","s","u","l","t","a","n","t">>, <<"e","x","p","e","r","i","e","n","c","e">>,
                    <<"s","k","i","l","l","s">> >>), WB>>)

\* index.js:409-434
AboutSummary(sents) == Found(Summarise(sents, sents))

AboutFrom(aboutDoc) ==
  IF aboutDoc.content # << >>
    THEN AboutSummary(SelectNonEmpty(SplitSentences(aboutDoc.content)))
    ELSE NotFound

AboutAmong(titled, candidates) ==
  IF titled # << >> THEN AboutFrom(titled[1])
  ELSE IF candidates # << >> THEN AboutFrom(Longest(candidates))
  ELSE NotFound

AboutAnswer(configOnlyDocs) ==
  AboutAmong(Pick(configOnlyDocs,
                  {k \in 1..Len(configOnlyDocs) :
                     Lower(configOnlyDocs[k].title) \in AboutTitles}),
             Pick(configOnlyDocs,
                  {k \in 1..Len(configOnlyDocs) :
                     TestI(BioCueRe, configOnlyDocs[k].content)}))

\* `- ${c}` joined by '\n'
BulletList(names) == Join([k \in 1..Len(names) |-> <<"-"," ">> \o names[k]], <<"\n">>)

\* push when not yet included / [...new Set(xs)]: first occurrences, in order
Distinct(xs) ==
  CHOOSE r \in {Pick(x, {k \in 1..Len(x) : \A j \in 1..(k - 1) : x[j] # x[k]}) :
                  x \in {xs}} : TRUE

CertTitleReI == Cat(<<Bos, SP0, Lit(<<"c","e","r","t","i","f","i","c","a","t","i","o","n">>), SP0, Lit(<<":">>)>>)
CertPrefixReI == Cat(<<Bos, SP0, Lit(<<"c","e","r","t","i","f","i","c","a","t","i","o","n">>), SP0, Lit(<<":">>), SP0>>)
\* /^[Cc]ertification\s*:\s*(.+)$/ : the prefix, and the test of the whole
CertMatchPrefixRe ==
  Cat(<<Bos, Cls({"C", "c"}), Lit(<<"e","r","t","i","f","i","c","a","t","i","o","n">>), SP0, Lit(<<":">>), SP0>>)
CertMatchRe == Cat(<<CertMatchPrefixRe, Plus(Dot), Eos>>)
HasAIRe ==
  Alt(<<Cat(<<WB, Lit(<<"a","i">>), WB>>), Lit(<<"a","r","t","i","f","i","c","i","a","l"," ","i","n","t","e","l","l","i","g","e","n","c","e">>),
        Lit(<<"m","a","c","h","i","n","e"," ","l","e","a","r","n","i","n","g">>), Lit(<<"g","e","n","e","r","a","t","i","v","e"," ","a","i">>)>>)

\* index.js:446-447: m[1].trim() is the trimmed text after the prefix
AICertName(title) ==
  IF Test(CertMatchRe, title)
    THEN Trim(ReplaceFirst(CertMatchPrefixRe, With(<< >>), TRUE, title))
    ELSE Trim(ReplaceFirstI(CertPrefixReI, With(<< >>), TRUE, title))

IsAICertDoc(d) ==
  TestI(CertTitleReI, d.title) /\ TestI(HasAIRe, d.title \o <<" ">> \o d.content)

\* the list that is returned when it is not empty
Bullets(names) == IF names # << >> THEN Found(BulletList(names)) ELSE NotFound

AICertNames(certDocs) == [k \in 1..Len(certDocs) |-> AICertName(certDocs[k].title)]

\* index.js:438-465
AICertAnswer(configOnlyDocs) ==
  Bullets(Distinct(SelectNonEmpty(AICertNames(
    Pick(configOnlyDocs,
         {k \in 1..Len(configOnlyDocs) : IsAICertDoc(configOnlyDocs[k])})))))

CertReplaceReI == Cat(<<Bos, Lit(<<"c","e","r","t","i","f","i","c","a","t","i","o","n",":">>), SP0>>)

\* index.js:472-476
IsCertDoc(d) == d.title # << >> /\ StartsWith(Lower(d.title), <<"c","e","r","t","i","f","i","c","a","t","i","o","n">>)

CertName(title) == Trim(ReplaceFirstI(CertReplaceReI, With(<< >>), TRUE, title))

CertNames(certDocs) == [k \in 1..Len(certDocs) |-> CertName(certDocs[k].title)]

\* index.js:469-489
CertAnswer(configOnlyDocs) ==
  Bullets(Distinct(SelectNonEmpty(CertNames(
    Pick(configOnlyDocs,
         {k \in 1..Len(configOnlyDocs) : IsCertDoc(configOnlyDocs[k])})))))

\* index.js:495
ContactMessage ==
  <<"F","o","r"," ","p","r","i","c","i","n","g",","," ","a","v","a","i","l","a","b","i","l","i","t","y",","," ","c","o","l","l","a","b","o","r","a","t","i","o","n"," ","o","r"," ","d","i","r","e","c","t"," ","c","o","n","t","a","c","t"," ","p","l","e","a","s","e"," ","u","s","e"," ","t","h","e"," ","w","e","b","s","i","t","e"," ","c","o","n","t","a","c","t"," ","p","a","g","e",":"," ","h","t","t","p","s",":","/","/","o","u","s","s","e","i","n","i","o","u","m","a","r","o","u",".","c","o","m","/","#","c","o","n","t","a","c","t">>

\* index.js:508-526
TeachingSummary(teaching, sents) ==
  Found(Summarise(IF teaching # << >> THEN teaching ELSE sents, sents))

TeachingSentences(sents) ==
  TeachingSummary(Pick(sents, {k \in 1..Len(sents) : TestI(teachingRe, sents[k])}),
                  sents)

TeachingFrom(chosen) ==
  IF chosen.content # << >>
    THEN TeachingSentences(SelectNonEmpty(SplitSentences(chosen.content)))
    ELSE NotFound

TeachingAmong(matches) ==
  IF matches # << >> THEN TeachingFrom(Longest(matches)) ELSE NotFound

TeachingAnswer(configOnlyDocs) ==
  TeachingAmong(Pick(configOnlyDocs,
                     {k \in 1..Len(configOnlyDocs) :
                        \/ TestI(teachingRe, configOnlyDocs[k].title)
                        \/ TestI(teachingRe, configOnlyDocs[k].content)}))

SkillsTitleRe == Cat(<<WB, Lit(<<"s","k","i","l","l">>), Opt(Lit(<<"s">>)), WB>>)
IsSkillsDoc(d) == Lower(d.title) = <<"s","k","i","l","l","s">> \/ TestI(SkillsTitleRe, d.title)

\* index.js:538-547: the names of one Skills document
Flatten(seqs) == Join(seqs, << >>)

CommaNames(p) == SelectNonEmpty(TrimAll(SplitChar(p, ",")))

\* (m.length > 1 ? m.slice(1).join(':') : p) for m = p.split(':')
AfterCategory(p) ==
  LET m == SplitChar(p, ":")
  IN  IF Len(m) > 1 THEN Join(Tail(m), <<":">>) ELSE p

CategoryNames(parts) ==
  Flatten([k \in 1..Len(parts) |-> CommaNames(AfterCategory(parts[k]))])

MutSkillNames(text) == CommaNames(text)
SkillNames(text) ==
  IF Includes(text, <<"|">>)
    THEN CategoryNames(SelectNonEmpty(TrimAll(SplitChar(text, "|"))))
    ELSE CommaNames(text)

MaxSkills == 50
NoSkillsMessage == <<"N","o"," ","s","k","i","l","l","s"," ","f","o","u","n","d"," ","i","n"," ","c","o","n","f","i","g","u","r","a","t","i","o","n",".">>

\* index.js:530-557
SkillItems(skillDocs) ==
  Distinct(Flatten([k \in 1..Len(skillDocs) |-> SkillNames(Trim(skillDocs[k].content))]))

OrNoSkills(list) == IF list # << >> THEN list ELSE NoSkillsMessage

SkillsAnswer(configOnlyDocs) ==
  OrNoSkills(BulletList(TakeFirst(SkillItems(
    Pick(configOnlyDocs,
         {k \in 1..Len(configOnlyDocs) : IsSkillsDoc(configOnlyDocs[k])})),
    MaxSkills)))

(***************************************************************************)
(* getRelevantContext (src/lambda/simple-rag.js:9-68)                       *)
(***************************************************************************)
\* natural.WordTokenizer: the maximal runs of [A-Za-z0-9_]
TokenStarts(s) ==
  {i \in 1..Len(s) : s[i] \in WordChars /\ (i = 1 \/ s[i - 1] \notin WordChars)}

\* the position after the token that starts at i
TokenEnd(s, i) == RunEnd(Cls(WordChars), s, i)

\* the tokens as a set (docTokens is only asked for membership)
TokenSet(s) ==
  UNION {{SubSeq(x, i, TokenEnd(x, i) - 1) : i \in TokenStarts(x)} : x \in {s}}

\* the tokens in order, repeated as they occur
TokensAt(s, starts) ==
  [k \in 1..Len(starts) |-> SubSeq(s, starts[k], TokenEnd(s, starts[k]) - 1)]

Tokenize(s) ==
  CHOOSE r \in {TokensAt(x, Ascending(TokenStarts(x), Len(x))) : x \in {s}} : TRUE

ScorerGreetings ==
  { <<"h","e","l","l","o">>, <<"h","i">>, <<"h","e","y">>, <<"g","r","e","e","t","i","n","g","s">>, <<"b","o","n","j","o","u","r">>, <<"s","a","l","u","t">>, <<"h","o","l","a">>, <<"h","a","l","l","o">>,
    <<"c","i","a","o">>, <<"y","o">>, <<"g","o","o","d"," ","m","o","r","n","i","n","g">>, <<"g","o","o","d"," ","a","f","t","e","r","n","o","o","n">>, <<"g","o","o","d"," ","e","v","e","n","i","n","g">> }

GreetingSentinel ==
  <<"T","h","i","s"," ","i","s"," ","a"," ","g","r","e","e","t","i","n","g","."," ","R","e","s","p","o","n","d"," ","w","i","t","h"," ","a"," ","w","a","r","m",","," ","f","r","i","e","n","d","l","y"," ","w","e","l","c","o","m","e"," ","a","n","d"," ","o","f","f","e","r"," ","t","o"," ","h","e","l","p"," ","w","i","t","h"," ","p","o","r","t","f","o","l","i","o"," ","q","u","e","s","t","i","o","n","s",".">>

\* simple-rag.js:15
IsScorerGreeting(msg) ==
  \E g \in ScorerGreetings :
    msg = g \/ StartsWith(msg, g \o <<" ">>) \/ EndsWith(msg, <<" ">> \o g)

ScorerHints ==
  << <<"c","e","r","t","i","f","i","c","a","t","i","o","n">>, <<"c","e","r","t","i","f","i","c","a","t","i","o","n","s">>, <<"c","e","r","t","i","f","i","c","a","t","e">>, <<"c","e","r","t","i","f","i","e","d">>, <<"a","i">>, <<"m","l">>,
     <<"m","a","c","h","i","n","e">>, <<"l","e","a","r","n","i","n","g">>, <<"d","e","e","p">>, <<"l","e","a","r","n","i","n","g">>, <<"p","r","o","j","e","c","t">>, <<"e","x","p","e","r","i","e","n","c","e">>,
     <<"s","k","i","l","l">> >>

\* simple-rag.js:28-39: twice the score of the code, which counts in halves
Score2(questionTokens, doc) ==
  LET content == Lower(doc.content)
      title == Lower(doc.title)
      docTokens == TokenSet(content \o <<" ">> \o title)
      overlap == Cardinality({k \in 1..Len(questionTokens) :
                                questionTokens[k] \in docTokens})
      boost == Cardinality({k \in 1..Len(ScorerHints) :
                              Includes(content, ScorerHints[k])
                              \/ Includes(title, ScorerHints[k])})
  IN  2 * overlap + boost

TopN == 3

\* filter(score > 0), the stable sort by descending score, slice(0, 3):
\* the indices of the chosen documents
RECURSIVE PickTop(_, _, _)
PickTop(scores, chosen, n) ==
  LET left == {k \in 1..Len(scores) :
                 scores[k] > 0 /\ \A j \in 1..Len(chosen) : chosen[j] # k}
  IN  IF n = 0 \/ left = {} THEN chosen
      ELSE LET best == SetMin({k \in left : \A j \in left : scores[j] <= scores[k]})
           IN  PickTop(scores, Append(chosen, best), n - 1)

FallbackSliceLen == 400
MaxContextLen == 1500
ContextSeparator == <<"\n","-","-","-","\n">>

\* simple-rag.js:54-63: the piece of one selected document
MatchedOr(matched, d) ==
  IF matched # << >> THEN Join(matched, <<" ">>) ELSE Slice(d.content, 0, FallbackSliceLen)

MatchingSentences(sents, want) ==
  Pick(sents, {k \in 1..Len(sents) : \E w \in want : Includes(Lower(sents[k]), w)})

Piece(d, want) == MatchedOr(MatchingSentences(SplitSentences(d.content), want), d)

MutTruncate(context) == context
Truncate(context) ==
  IF Len(context) > MaxContextLen THEN Slice(context, 0, MaxContextLen) ELSE context

NotAnArray == [isArray |-> FALSE, items |-> << >>]
ArrayOf(docs) == [isArray |-> TRUE, items |-> docs]

\* simple-rag.js:41-47: the three best documents, or documents that mention
\* a certification when none scores and the question is about certifications
ByScore(docs, scored) == [k \in 1..Len(scored) |-> docs[scored[k]]]

Scores(docs, questionTokens) ==
  [k \in 1..Len(docs) |-> Score2(questionTokens, docs[k])]

OrCertDocs(top, docs, msg) ==
  IF top = << >> /\ Includes(msg, <<"c","e","r","t","i","f">>)
    THEN TakeFirst(Pick(docs, {k \in 1..Len(docs) :
                                 Includes(Lower(docs[k].content), <<"c","e","r","t","i","f">>)}), TopN)
    ELSE top

MutTopDocs(docs, msg, questionTokens) == OrCertDocs(TakeFirst(docs, TopN), docs, msg)
TopDocs(docs, msg, questionTokens) ==
  OrCertDocs(ByScore(docs, PickTop(Scores(docs, questionTokens), << >>, TopN)),
             docs, msg)

\* simple-rag.js:50-67
Wanted(questionTokens) ==
  {questionTokens[k] : k \in 1..Len(questionTokens)}
  \cup {ScorerHints[k] : k \in 1..Len(ScorerHints)}

Pieces(top, want) == [k \in 1..Len(top) |-> Piece(top[k], want)]

SourceOf(top) ==
  [k \in 1..Len(top) |-> IF top[k].source # << >> THEN top[k].source ELSE top[k].title]

Assemble(top, questionTokens) ==
  [context |-> Truncate(Join(Pieces(top, Wanted(questionTokens)), ContextSeparator)),
   sources |-> SelectNonEmpty(SourceOf(top))]

Select(docs, msg, questionTokens) ==
  Assemble(TopDocs(docs, msg, questionTokens), questionTokens)

Answering(docs, msg) ==
  IF IsScorerGreeting(msg)
    THEN [context |-> GreetingSentinel, sources |-> << >>]
    ELSE Select(docs, msg, Tokenize(msg))

getRelevantContext(userMessage, portfolioDocs) ==
  IF ~portfolioDocs.isArray THEN [context |-> << >>, sources |-> << >>]
  ELSE Answering(portfolioDocs.items, Lower(Trim(userMessage)))

(***************************************************************************)
(* The response sanitation of the general path (index.js:662-725) and of   *)
(* the AI-project path (index.js:602-608)                                  *)
(***************************************************************************)
\* s.replace(/\s+/g, ' ').trim(): every maximal run of white space becomes
\* one space, that is, a white-space character is dropped when it follows
\* another and becomes a space otherwise
RunStarts(s) ==
  {k \in 1..Len(s) : s[k] \notin SpaceChars \/ k = 1 \/ s[k - 1] \notin SpaceChars}

AsSpace(s) == [k \in 1..Len(s) |-> IF s[k] \in SpaceChars THEN " " ELSE s[k]]

CollapseSpaces(s) ==
  CHOOSE r \in {Trim(AsSpace(Pick(x, RunStarts(x)))) : x \in {s}} : TRUE

TrailingQuotesRe == Cat(<<Plus(Cls({"\"", "'", "backtick"})), Eos>>)
MaxSentences == 2

\* index.js:663-679
cleanOutput(text) ==
  ensureSentenceEnds(
    Trim(ReplaceFirst(TrailingQuotesRe, With(<< >>), TRUE,
      Join(TakeFirst(SelectNonEmpty(TrimAll(SplitSentences(
             stripMarkdown(ReplaceAll(FenceRe, With(<< >>), FALSE, text))))),
           MaxSentences), <<" ">>))))

Dashes == {"-", "endash", "emdash"}
AccordingContextRe == Cat(<<WB, Lit(<<"a","c","c","o","r","d","i","n","g"," ","t","o"," ","t","h","e"," ","c","o","n","t","e","x","t">>), WB>>)
AccordingProvidedRe ==
  Cat(<<WB, Lit(<<"a","c","c","o","r","d","i","n","g"," ","t","o"," ">>), Opt(Lit(<<"t","h","e"," ">>)), Lit(<<"p","r","o","v","i","d","e","d"," ","c","o","n","t","e","x","t">>), WB>>)
NoteLineRe ==
  Cat(<<Bol, SP0, Lit(<<"n","o","t","e">>), SP0, Cls({":", "-", "emdash"}), Star(Dot), Eol>>)
NoSourceRe ==
  Cat(<<Lit(<<"(">>), SP0, Lit(<<"n","o"," ","s","o","u","r","c","e"," ","u","r","l"," ","i","s"," ","p","r","o","v","i","d","e","d">>), SP0, Lit(<<")">>)>>)
SelfCheckRe ==
  Cat(<<Alt(<<Lit(<<"i","s"," ","t","h","i","s"," ","r","e","s","p","o","n","s","e">>),
              Lit(<<"e","s","t","-","c","e"," ","q","u","e"," ","c","e","t","t","e"," ","r">> \o <<"e_acute">> \o <<"p","o","n","s","e">>)>>),
        Star(NCls({".", "?", "!"})), Lit(<<"?">>)>>)
GuidelinesRe == Lit(<<"d","o","e","s"," ","i","t"," ","f","o","l","l","o","w"," ","t","h","e"," ","g","u","i","d","e","l","i","n","e","s","?">>)
ConsignesRe ==
  Cat(<<Lit(<<"r","e","s","p","e","c","t","e">>), Opt(Cls({"-", " "})), Lit(<<"t","-","i","l"," ","l","e","s"," ","c","o","n","s","i","g","n","e","s","?">>)>>)

\* index.js:683-696, the last replacement applied first
sanitizeMeta(text) ==
  CHOOSE r \in {
    IF x = << >> THEN x
    ELSE CollapseSpaces(
           ReplaceAllI(ConsignesRe, With(<< >>), TRUE,
           ReplaceAllI(GuidelinesRe, With(<< >>), TRUE,
           ReplaceAllI(SelfCheckRe, With(<< >>), TRUE,
           ReplaceAllI(NoSourceRe, With(<< >>), TRUE,
           ReplaceAllI(NoteLineRe, With(<< >>), TRUE,
           ReplaceAllI(AccordingProvidedRe, With(<< >>), TRUE,
           ReplaceAllI(AccordingContextRe, With(<< >>), TRUE, x)))))))) :
    x \in {text}} : TRUE

MinEchoLen == 4
\* new RegExp('^\n?\s*' + esc + '\\s*[-:–—]*\n?\s*', 'i'): in the two string
\* literals that are not double-escaped, '\s' is the letter s, so the pattern
\* is  ^ \n? s* <question> \s* [-:–—]* \n? s*
EchoRe(q) ==
  Cat(<<Bos, Opt(Lit(<<"\n">>)), Star(Lit(<<"s">>)), Lit(Lower(q)), SP0,
        Star(Cls({"-", ":", "endash", "emdash"})), Opt(Lit(<<"\n">>)),
        Star(Lit(<<"s">>))>>)
EchoSeparators == {":", ",", "-", "endash", "emdash"}
YouAskedRe ==
  Cat(<<Bos, Alt(<<Cat(<<Lit(<<"y","o","u">>), SP1, Lit(<<"a","s","k","e","d">>)>>),
                   Cat(<<Lit(<<"v","o","u","s">>), SP1, Lit(<<"a","v","e","z">>), SP1,
                         Lit(<<"d","e","m","a","n","d">> \o <<"e_acute">>)>>),
                   Cat(<<Lit(<<"v","o","u","s">>), SP1, Lit(<<"a","v","e","z">>), SP1, Lit(<<"d","e","m","a","n","d","e">>)>>)>>),
        Opt(Cls(EchoSeparators)), SP0>>)
QuestionLabelRe ==
  Cat(<<Bos, Lit(<<"q","u","e","s","t","i","o","n">>), SP0, Opt(Cls(EchoSeparators)), SP0>>)
LeadingQuoteRe ==
  Cat(<<Bos, Lit(<<"\"">>), Plus(NCls({"\""})), Lit(<<"\"">>), SP0>>)

\* index.js:699-712
EchoFree(botMessage, q) ==
  IF q = << >> \/ Len(q) < MinEchoLen THEN botMessage
  ELSE Trim(ReplaceFirstI(LeadingQuoteRe, With(<< >>), TRUE,
       Trim(ReplaceFirstI(QuestionLabelRe, With(<< >>), TRUE,
       Trim(ReplaceFirstI(YouAskedRe, With(<< >>), TRUE,
       Trim(ReplaceFirstI(EchoRe(q), With(<< >>), TRUE, botMessage))))))))

stripEcho(botMessage, userMessage) == EchoFree(botMessage, Trim(userMessage))

unknownRe ==
  Alt(<<Cat(<<Lit(<<"i">>), SP1, Lit(<<"d","o","n","'","t">>), SP1, Lits(<< <<"h","a","v","e">>, <<"k","n","o","w">> >>)>>),
        Cat(<<Lit(<<"n","o","t">>), SP1, Lit(<<"m","e","n","t","i","o","n","e","d">>)>>),
        Cat(<<Lit(<<"n","o">>), SP1, Lit(<<"i","n","f","o","r","m","a","t","i","o","n">>)>>),
        Cat(<<Lit(<<"n","o">>), SP1, Lit(<<"d","a","t","a">>)>>),
        Cat(<<Lit(<<"n","o","t">>), SP1, Lit(<<"s","u","r","e">>)>>),
        Cat(<<Lit(<<"j","e">>), SP1, Lit(<<"n","e">>), SP1, Lit(<<"s","a","i","s">>), SP1, Lit(<<"p","a","s">>)>>),
        Cat(<<Lit(<<"p","a","s">>), SP1, Lit(<<"d">>), Cls({"'", "rsquo"}), Lit(<<"i","n","f","o","r","m","a","t","i","o","n">>)>>)>>)
HelpFurtherRe == Lit(<<"h","o","w"," ","c","a","n"," ","i"," ","h","e","l","p"," ","f","u","r","t","h","e","r","?">>)
AiderRe == Lit(<<"c","o","m","m","e","n","t"," ","p","u","i","s","-","j","e"," ","v","o","u","s"," ","a","i","d","e","r">>)
TrailingPunctRe == Cat(<<Star(Cls(SentenceEndChars)), Eos>>)

NamePhrase(userName) == IF userName # << >> THEN <<","," ">> \o userName ELSE << >>
EnTail(userName) == <<" ","H","o","w"," ","c","a","n"," ","I"," ","h","e","l","p"," ","f","u","r","t","h","e","r">> \o NamePhrase(userName) \o <<"?">>
FrTail(userName) ==
  <<" ","C","o","m","m","e","n","t"," ","p","u","i","s","-","j","e"," ","v","o","u","s"," ","a","i","d","e","r"," ","a","u","t","r","e","m","e","n","t">> \o NamePhrase(userName) \o <<" ","?">>

\* index.js:714-721
WithTail(botMessage, userName, isFrench) ==
  IF /\ TestI(unknownRe, botMessage)
     /\ ~TestI(HelpFurtherRe, botMessage)
     /\ ~TestI(AiderRe, botMessage)
    THEN ensureSentenceEnds(ReplaceFirst(TrailingPunctRe, With(<< >>), TRUE, botMessage))
         \o (IF isFrench THEN FrTail(userName) ELSE EnTail(userName))
    ELSE botMessage

uncertaintyTail(botMessage, userName, isFrench) ==
  CHOOSE r \in {WithTail(x, userName, isFrench) : x \in {botMessage}} : TRUE

UrlRe == Cat(<<Lit(<<"h","t","t","p">>), Opt(Lit(<<"s">>)), Lit(<<":","/","/">>), Plus(NonSp)>>)

\* index.js:723
stripUrls(s) == CollapseSpaces(ReplaceAllI(UrlRe, With(<< >>), TRUE, s))

\* index.js:680-725: the whole pipeline applied to the generated text
sanitize(text, userMessage, userName, isFrench) ==
  ensureSentenceEnds(
    stripUrls(
      uncertaintyTail(
        stripEcho(sanitizeMeta(cleanOutput(text)), userMessage),
        userName, isFrench)))

ResponseTagRe == Cat(<<Bos, SP0, Lit(<<"r","e","s","p","o","n","s","e",":">>), SP0>>)

\* index.js:602-607
cleanStarOutput(text) ==
  CollapseSpaces(
    Trim(ReplaceFirstI(ResponseTagRe, With(<< >>), TRUE,
      ReplaceAll(FenceRe, With(<< >>), FALSE, text))))

GenerationFallback == <<"S","o","r","r","y",","," ","I"," ","c","o","u","l","d"," ","n","o","t"," ","g","e","n","e","r","a","t","e"," ","a"," ","r","e","s","p","o","n","s","e",".">>

\* index.js:594-599 and 655-660: the first non-empty of the known fields
ExtractText(body) ==
  IF body.generated_text # << >> THEN body.generated_text
  ELSE IF body.generation # << >> THEN body.generation
  ELSE IF body.outputText # << >> THEN body.outputText
  ELSE IF body.completion # << >> THEN body.completion
  ELSE GenerationFallback

(***************************************************************************)
(* Settings (index.js:39-54)                                               *)
(***************************************************************************)
\* getBotSettings().ragTriggerTopics: config.js sets none, so the default list
ragTriggerTopics ==
  << <<"e","x","p","e","r","i","e","n","c","e">>, <<"e","x","p","e","r","i","e","n","c","e","s">>, <<"m","a","n","a","g","e","m","e","n","t">>, <<"l","e","a","d","e","r","s","h","i","p">>, <<"c","r","y","p","t","o">>,
     <<"c","r","y","p","t","o","c","u","r","r","e","n","c","y">>, <<"b","l","o","c","k","c","h","a","i","n">>, <<"t","e","a","c","h","i","n","g">>, <<"m","e","n","t","o","r">>, <<"m","e","n","t","o","r","i","n","g">>,
     <<"b","u","s","i","n","e","s","s">>, <<"a","d","m","i","n","i","s","t","r","a","t","i","o","n">>, <<"b","u","s","i","n","e","s","s"," ","a","d","m","i","n","i","s","t","r","a","t","i","o","n">> >>

MutShouldUseRag(userMessage) == TRUE
shouldUseRag(userMessage) ==
  \E k \in 1..Len(ragTriggerTopics) :
    Includes(Lower(userMessage), Lower(ragTriggerTopics[k]))

(***************************************************************************)
(* The routing of a validated, non-French request (index.js:357-635):      *)
(* either a reply, or the prompt of a generation call.                     *)
(***************************************************************************)
Reply(intent, message) ==
  [intent |-> intent, generate |-> FALSE, message |-> message,
   context |-> << >>, sources |-> << >>]
\* the canned reply of a path that retrieved: the context is recorded
Canned(intent, retrieved, message) ==
  [intent |-> intent, generate |-> FALSE, message |-> message,
   context |-> retrieved.context, sources |-> retrieved.sources]
Generation(intent, retrieved) ==
  [intent |-> intent, generate |-> TRUE, message |-> << >>,
   context |-> retrieved.context, sources |-> retrieved.sources]

FrenchDisclaimer ==
  <<"B","o","n","j","o","u","r"," ","!"," ","J","e"," ","p","e","u","x"," ","r">> \o <<"e_acute">> \o <<"p","o","n","d","r","e"," ","u","n","i","q","u","e","m","e","n","t"," ","e","n"," ","a","n","g","l","a","i","s","."," ","P","l","e","a","s","e"," ","a","s","k"," ","y","o","u","r"," ","q","u","e","s","t","i","o","n","s"," ","i","n"," ","E","n","g","l","i","s","h","."," ","P","l","e","a","s","e"," ","t","e","l","l"," ","m","e"," ","y","o","u","r"," ","n","a","m","e"," ","s","o"," ","I"," ","c","a","n"," ","p","e","r","s","o","n","a","l","i","z","e"," ","r","e","p","l","i","e","s",".">>
AskNameTail == <<" ","P","l","e","a","s","e"," ","t","e","l","l"," ","m","e"," ","y","o","u","r"," ","n","a","m","e"," ","s","o"," ","I"," ","c","a","n"," ","p","e","r","s","o","n","a","l","i","z","e"," ","r","e","p","l","i","e","s",".">>

\* index.js:365-386
GreetingMessage(userName, isFrench) ==
  LET askNameTail == IF userName # << >> THEN << >> ELSE AskNameTail
  IN  IF isFrench
        THEN (IF userName # << >> THEN <<"B","o","n","j","o","u","r"," ">> \o userName \o <<" ","!">> ELSE <<"B","o","n","j","o","u","r"," ","!">>)
             \o <<" ","J","e"," ","p","e","u","x"," ","r">> \o <<"e_acute">>
             \o <<"p","o","n","d","r","e"," ","u","n","i","q","u","e","m","e","n","t"," ","e","n"," ","a","n","g","l","a","i","s","."," ","P","l","e","a","s","e"," ","a","s","k"," ","y","o","u","r"," ","q","u","e","s","t","i","o","n","s"," ","i","n"," ","E","n","g","l","i","s","h",".">>
             \o askNameTail
        ELSE (IF userName # << >> THEN <<"H","e","l","l","o"," ">> \o userName \o <<"!">> ELSE <<"H","e","l","l","o","!">>)
             \o <<" ","I","'","m"," ","S","e","n","s","e","i",","," ","O","u","s","s","e","i","n","i","'","s"," ","p","o","r","t","f","o","l","i","o"," ","a","s","s","i","s","t","a","n","t","."," ","H","o","w"," ","c","a","n"," ","I"," ","a","s","s","i","s","t"," ","y","o","u"," ","t","o","d","a","y","?">>
             \o askNameTail

AgentName == <<"S","e","n","s","e","i">>

\* index.js:568-570
NoAIProjectMessage(userName, isFrench) ==
  IF isFrench
    THEN <<"J","e"," ","n","'","a","i"," ","p","a","s"," ","d","'","i","n","f","o","r","m","a","t","i","o","n"," ","s","p">> \o <<"e_acute">> \o <<"c","i","f","i","q","u","e"," ","s","u","r"," ","l","e","s"," ","p","r","o","j","e","t","s"," ","d","'","I","A">>
         \o NamePhrase(userName) \o <<"."," ","C","o","m","m","e","n","t"," ","p","u","i","s","-","j","e"," ","v","o","u","s"," ","a","i","d","e","r"," ","a","u","t","r","e","m","e","n","t"," ","?">>
    ELSE <<"I"," ","d","o","n","'","t"," ","h","a","v","e"," ","s","p","e","c","i","f","i","c"," ","A","I"," ","p","r","o","j","e","c","t"," ","i","n","f","o","r","m","a","t","i","o","n">> \o NamePhrase(userName)
         \o <<"."," ","H","o","w"," ","c","a","n"," ","I"," ","h","e","l","p"," ","f","u","r","t","h","e","r","?">>

\* index.js:627-629
NoInformationMessage(userName, isFrench) ==
  IF isFrench
    THEN <<"J","e"," ","n","'","a","i"," ","p","a","s"," ","c","e","t","t","e"," ","i","n","f","o","r","m","a","t","i","o","n"," ","p","r">> \o <<"e_acute">> \o <<"c","i","s","e">>
         \o NamePhrase(userName) \o <<"."," ","C","o","m","m","e","n","t"," ","p","u","i","s","-","j","e"," ","v","o","u","s"," ","a","i","d","e","r"," ","a","u","t","r","e","m","e","n","t"," ","?">>
    ELSE <<"I"," ","d","o","n","'","t"," ","h","a","v","e"," ","t","h","a","t"," ","s","p","e","c","i","f","i","c"," ","i","n","f","o","r","m","a","t","i","o","n">> \o NamePhrase(userName)
         \o <<"."," ","H","o","w"," ","c","a","n"," ","I"," ","h","e","l","p"," ","f","u","r","t","h","e","r","?">>

\* !context || !context.trim()
IsBlank(context) == Trim(context) = << >>

\* index.js:563-565 and 621-623
Retrieve(userMessage, portfolioDocs, configOnlyDocs) ==
  getRelevantContext(userMessage,
    ArrayOf(IF shouldUseRag(userMessage) THEN portfolioDocs ELSE configOnlyDocs))

\* index.js:566-572 and 624-630: without context the reply is canned
MutOrGenerate(intent, retrieved, message) == Generation(intent, retrieved)
OrGenerate(intent, retrieved, message) ==
  IF IsBlank(retrieved.context) THEN Canned(intent, retrieved, message)
  ELSE Generation(intent, retrieved)

\* index.js:559-635: the two paths that retrieve
RouteTail(m, userName, isFrench, portfolioDocs, configOnlyDocs) ==
  IF wantsAIProjects(m)
    THEN OrGenerate("AIProject", Retrieve(m, portfolioDocs, configOnlyDocs),
                    NoAIProjectMessage(userName, isFrench))
    ELSE OrGenerate("General", Retrieve(m, portfolioDocs, configOnlyDocs),
                    NoInformationMessage(userName, isFrench))

\* index.js:357-635
MutRouteOn(m, userName, isFrench, portfolioDocs, configOnlyDocs, about, aiCerts, certs, teaching) ==
  IF isGreeting(m) THEN Reply("Greeting", GreetingMessage(userName, isFrench))
  ELSE IF wantsAgentName(m) THEN Reply("AgentName", AgentName)
  ELSE IF isFrench THEN Reply("French", FrenchDisclaimer)
  ELSE IF wantsAbout(m) /\ about[1] THEN Reply("About", about[2])
  ELSE IF wantsCerts(m) /\ certs[1] THEN Reply("Cert", certs[2])
  ELSE IF wantsAICerts(m) /\ aiCerts[1] THEN Reply("AICert", aiCerts[2])
  ELSE IF wantsContact(m) THEN Reply("Contact", ContactMessage)
  ELSE IF wantsTeaching(m) /\ teaching[1] THEN Reply("Teaching", teaching[2])
  ELSE IF wantsSkills(m) THEN Reply("Skills", SkillsAnswer(configOnlyDocs))
  ELSE RouteTail(m, userName, isFrench, portfolioDocs, configOnlyDocs)

RouteOn(m, userName, isFrench, portfolioDocs, configOnlyDocs, about, aiCerts, certs, teaching) ==
  IF isGreeting(m) THEN Reply("Greeting", GreetingMessage(userName, isFrench))
  ELSE IF wantsAgentName(m) THEN Reply("AgentName", AgentName)
  ELSE IF isFrench THEN Reply("French", FrenchDisclaimer)
  ELSE IF wantsAbout(m) /\ about[1] THEN Reply("About", about[2])
  ELSE IF wantsAICerts(m) /\ aiCerts[1] THEN Reply("AICert", aiCerts[2])
  ELSE IF wantsCerts(m) /\ certs[1] THEN Reply("Cert", certs[2])
  ELSE IF wantsContact(m) THEN Reply("Contact", ContactMessage)
  ELSE IF wantsTeaching(m) /\ teaching[1] THEN Reply("Teaching", teaching[2])
  ELSE IF wantsSkills(m) THEN Reply("Skills", SkillsAnswer(configOnlyDocs))
  ELSE RouteTail(m, userName, isFrench, portfolioDocs, configOnlyDocs)

RouteWith(m, userName, isFrench, portfolioDocs, configOnlyDocs) ==
  RouteOn(m, userName, isFrench, portfolioDocs, configOnlyDocs,
          AboutAnswer(configOnlyDocs), AICertAnswer(configOnlyDocs),
          CertAnswer(configOnlyDocs), TeachingAnswer(configOnlyDocs))

Route(m, userName, isFrench, portfolioDocs) ==
  RouteWith(m, userName, isFrench, portfolioDocs, ConfigOnly(portfolioDocs))

(***************************************************************************)
(* The request: event, store and generation capability                     *)
(***************************************************************************)
\* body.name.replace(/[^\p{L} '\-]/gu, '').trim()
NameChars == Letters \cup AccentChars \cup {" ", "'", "-"}
CleanName(name) == Trim(Pick(name, {k \in 1..Len(name) : name[k] \in NameChars}))

StatusPathRe == Cat(<<Lit(<<"/","s","t","a","t","u","s">>), Eos>>)
\* String(method).toUpperCase() === 'GET' && /\/status$/i.test(String(rawPath))
MutIsStatusRequest(ev) == ev.method = <<"G","E","T">> /\ ev.path = <<"/","s","t","a","t","u","s">>
IsStatusRequest(ev) == Lower(ev.method) = <<"g","e","t">> /\ TestI(StatusPathRe, ev.path)

VARIABLES
  event,          \* the request: method, path, body {message, name}
  store,          \* the document store: legacy snapshot and prefix objects
  pc,             \* where the handler is: before which await, or done
  userName,       \* the sanitized body.name
  isFrench,       \* detectLanguage(userMessage) === 'fr'
  docs,           \* loadPortfolioDocsFromS3: the documents collected so far
  pending,        \* the listed objects not yet visited
  portfolioDocs,  \* the corpus loadPortfolioDocsFromS3 returned
  decision,       \* what the routing decided
  generated,      \* the text extracted from the generation response
  response,       \* the handler's result
  getCalls,       \* GetObject commands sent
  listCalls,      \* ListObjectsV2 commands sent
  genCalls,       \* InvokeModel commands sent
  call,           \* a direct call of getRelevantContext: its two arguments
  result,         \* what that call returned
  others          \* a second invocation in flight: its own locals, suspended

vars == <<event, store, pc, userName, isFrench, docs, pending, portfolioDocs, decision,
          generated, response, getCalls, listCalls, genCalls, call, result, others>>

\* body.message
bodyMessage == event.body.message

NoResponse == [status |-> 0, kind |-> "none", message |-> << >>]
Message(status, m) == [status |-> status, kind |-> "message", message |-> m]
\* { error: e } and, from the catch, details: err.message
MutError(status, e, details) ==
  [status |-> status, kind |-> "error", message |-> e, details |-> << >>]
Error(status, e, details) ==
  [status |-> status, kind |-> "error", message |-> e, details |-> details]
\* index.js:316-328: the payload of the status route, by its keys
StatusPayload ==
  [status |-> 200, kind |-> "status", message |-> <<"o","k">>,
   fields |-> << "status", "region", "modelId", "bucket", "prefix", "time" >>]
NoDecision == Reply("none", << >>)

MissingMessage == <<"M","i","s","s","i","n","g"," ","m","e","s","s","a","g","e">>
InternalServerError == <<"I","n","t","e","r","n","a","l"," ","s","e","r","v","e","r"," ","e","r","r","o","r">>
\* index.js:337-342: the validation failure carries no detail
Invalid == Error(400, MissingMessage, << >>)
\* index.js:733-740: the catch. err.message is written as the name of the
\* statement that raised the exception
Failure(raisedBy) == Error(500, InternalServerError, raisedBy)
BodyParse == <<"J","S","O","N",".","p","a","r","s","e","(","e","v","e","n","t",".","b","o","d","y",")">>
DedupeLoop == <<"d",".","t","i","t","l","e">>
GenerationCall == <<"b","e","d","r","o","c","k",".","s","e","n","d">>
GenerationParse == <<"J","S","O","N",".","p","a","r","s","e","(","b","e","d","r","o","c","k","R","e","s",".","b","o","d","y",")">>

\* index.js:333 and 337: !userMessage
MutNoMessage(body) == ~body.present
NoMessage(body) == body.message = << >>

(***************************************************************************)
(* The inputs of the model                                                 *)
(***************************************************************************)
\* documents as data-extractor.js writes them from config.js
AboutDoc ==
  Doc(<<"A","b","o","u","t">>,
      <<"I"," ","a","m"," ","a"," ","c","l","o","u","d"," ","c","o","n","s","u","l","t","a","n","t"," ","b","a","s","e","d"," ","i","n"," ","N","i","a","m","e","y","."," ","I"," ","t","e","a","c","h"," ","A","I"," ","a","t"," ","a"," ","u","n","i","v","e","r","s","i","t","y",".">>,
      CONFIG_SOURCE)
\* the same title and the same first 40 characters of content as AboutDoc
AboutTwin ==
  Doc(<<"A","b","o","u","t">>,
      <<"I"," ","a","m"," ","a"," ","c","l","o","u","d"," ","c","o","n","s","u","l","t","a","n","t"," ","b","a","s","e","d"," ","i","n"," ","N","i","a","m","e","y","."," ","I"," ","m","e","n","t","o","r"," ","s","t","u","d","e","n","t","s",".">>,
      CONFIG_SOURCE)
AICertDoc == Doc(<<"C","e","r","t","i","f","i","c","a","t","i","o","n",":"," ","A","I"," ","P","r","a","c","t","i","t","i","o","n","e","r">>, <<"I","s","s","u","e","d",":"," ","2","0","2","5">>, CONFIG_SOURCE)
CloudCertDoc == Doc(<<"C","e","r","t","i","f","i","c","a","t","i","o","n",":"," ","C","l","o","u","d"," ","P","r","a","c","t","i","t","i","o","n","e","r">>, <<"I","s","s","u","e","d",":"," ","2","0","2","4">>, CONFIG_SOURCE)
\* data-extractor.js:96-101: the merged list of config.certifications
CertListDoc == Doc(<<"C","e","r","t","i","f","i","c","a","t","i","o","n","s">>, <<"C","l","o","u","d"," ","P","r","a","c","t","i","t","i","o","n","e","r",","," ","A","I"," ","P","r","a","c","t","i","t","i","o","n","e","r">>, CONFIG_SOURCE)
\* data-extractor.js:58-69: the category lines of config.skills
SkillsDoc == Doc(<<"S","k","i","l","l","s">>, <<"C","l","o","u","d",":"," ","A","W","S",","," ","A","z","u","r","e"," ","|"," ","D","a","t","a","b","a","s","e","s",":"," ","S","3",","," ","D","y","n","a","m","o","D","B">>, CONFIG_SOURCE)
\* data-extractor.js:72-77: the flat list of config.skills
FlatSkillsDoc == Doc(<<"S","k","i","l","l","s">>, <<"A","W","S",","," ","P","y","t","h","o","n",","," ","A","W","S">>, CONFIG_SOURCE)
\* fifty-two one-letter skill names
ManySkillsDoc ==
  Doc(<<"S","k","i","l","l","s">>,
      Join([k \in 1..52 |-> IF k <= 26 THEN <<LowerSeq[k]>> ELSE <<UpperSeq[k - 26]>>],
           <<","," ">>),
      CONFIG_SOURCE)
\* a scraped page (data-extractor.js:139): its source is its URL
ScrapedDoc ==
  Doc(<<"C","e","r","t","i","f","i","c","a","t","i","o","n",":"," ","L","e","a","d","e","r","s","h","i","p">>, <<"S","k","i","l","l","s",":"," ","l","e","a","d","e","r","s","h","i","p"," ","e","x","p","e","r","i","e","n","c","e",".">>, <<"h","t","t","p","s",":","/","/","x",".","i","o","/">>)

\* an entry with another source that has the title and the first 40
\* characters of content of AboutDoc
ShadowDoc ==
  Doc(<<"A","b","o","u","t">>,
      <<"I"," ","a","m"," ","a"," ","c","l","o","u","d"," ","c","o","n","s","u","l","t","a","n","t"," ","b","a","s","e","d"," ","i","n"," ","N","i","a","m","e","y","."," ","I"," ","s","e","l","l"," ","c","a","r","s",".">>,
      <<"h","t","t","p","s",":","/","/","x",".","i","o","/","a","b","o","u","t">>)

\* three scraped pages whose one sentence is longer than a third of the
\* scorer's context limit
LongDoc(k) ==
  Doc(<<"P", "a", "g", "e", " ", DigitSeq[k]>>,
      Join([j \in 1..60 |-> <<"e","x","p","e","r","i","e","n","c","e">>], <<" ">>),
      <<"h","t","t","p","s",":","/","/","x",".","i","o","/">> \o <<DigitSeq[k]>>)
\* a page that mentions a certification with no word of the scorer's hints
RosterDoc == Doc(<<"R","o","s","t","e","r">>, <<"c","e","r","t","i","f"," ","r","o","s","t","e","r">>, <<"h","t","t","p","s",":","/","/","x",".","i","o","/","r">>)

\* an array entry {source: 'config.js'} with no title and no content
BlankDoc == Doc(<< >>, << >>, CONFIG_SOURCE)

EntryPool ==
  << AboutDoc, AboutTwin, AICertDoc, CloudCertDoc, CertListDoc, SkillsDoc,
     ScrapedDoc, NullEntry >>

MaxLegacyDocs == 2

\* the arrays of at most n pool entries, in pool order (an entry may repeat)
RECURSIVE ArraysFrom(_, _)
ArraysFrom(n, from) ==
  IF n = 0 THEN {<< >>}
  ELSE {<< >>} \cup
       UNION {{<<EntryPool[k]>> \o rest : rest \in ArraysFrom(n - 1, k)} :
                k \in from..Len(EntryPool)}

BadJson == [kind |-> "badjson", items |-> << >>, text |-> << >>]
JsonArray(items) == [kind |-> "array", items |-> items, text |-> << >>]
JsonObject(d) == [kind |-> "object", items |-> <<d>>, text |-> << >>]
Text(t) == [kind |-> "text", items |-> << >>, text |-> t]

\* the answer of GetObject for the legacy snapshot
Legacy(status, body) == [status |-> status, body |-> body]
LegacyMissing == Legacy("NoSuchKey", BadJson)
LegacyDenied == Legacy("error", BadJson)

Object(key, readable, body) == [key |-> key, readable |-> readable, body |-> body]
PrefixObjects ==
  << Object(<<"r","a","g","-","d","a","t","a","/">>, TRUE, Text(<< >>)),
     Object(<<"r","a","g","-","d","a","t","a","/","p","o","r","t","f","o","l","i","o","-","d","o","c","u","m","e","n","t","s",".","j","s","o","n">>, TRUE, JsonArray(<<CloudCertDoc>>)),
     Object(<<"r","a","g","-","d","a","t","a","/","n","o","t","e","s",".","T","X","T">>, TRUE, Text(<<"O","u","s","s","e","i","n","i"," ","m","e","n","t","o","r","s"," ","s","t","u","d","e","n","t","s"," ","i","n"," ","N","i","a","m","e","y",".">>)),
     Object(<<"r","a","g","-","d","a","t","a","/","e","x","t","r","a",".","j","s","o","n">>, TRUE, JsonArray(<<AboutTwin, AICertDoc>>)),
     Object(<<"r","a","g","-","d","a","t","a","/","b","a","d",".","j","s","o","n">>, TRUE, BadJson),
     Object(<<"r","a","g","-","d","a","t","a","/","g","o","n","e",".","m","d">>, FALSE, Text(<<"l","o","s","t">>)),
     Object(<<"r","a","g","-","d","a","t","a","/","o","n","e",".","j","s","o","n">>, TRUE, JsonObject(SkillsDoc)),
     Object(<<"r","a","g","-","d","a","t","a","/","l","o","g","o",".","p","n","g">>, TRUE, Text(<<"p","n","g">>)) >>

Store(legacy, listable, objects) ==
  [legacy |-> legacy, listable |-> listable, objects |-> objects]

Stores ==
  {Store(Legacy("ok", JsonArray(a)), TRUE, << >>) : a \in ArraysFrom(MaxLegacyDocs, 1)}
  \cup {Store(LegacyMissing, FALSE, << >>),
        Store(LegacyDenied, TRUE, << >>),
        Store(Legacy("ok", BadJson), TRUE, << >>),
        Store(Legacy("ok", JsonObject(AboutDoc)), TRUE, PrefixObjects),
        Store(Legacy("ok", JsonObject(Doc(<< >>, << >>, CONFIG_SOURCE))), TRUE,
              SubSeq(PrefixObjects, 1, 3)),
        Store(LegacyMissing, TRUE, PrefixObjects),
        Store(Legacy("ok", JsonArray(<<FlatSkillsDoc, SkillsDoc>>)), TRUE, << >>),
        Store(Legacy("ok", JsonArray(<<ManySkillsDoc, SkillsDoc>>)), TRUE, << >>),
        Store(Legacy("ok", JsonArray(<<ShadowDoc>>)), TRUE,
              <<Object(<<"r","a","g","-","d","a","t","a","/","c","o","n","f","i","g",".","j","s","o","n">>, TRUE, JsonArray(<<AboutDoc, SkillsDoc>>))>>),
        Store(Legacy("ok", JsonArray(<<BlankDoc, SkillsDoc>>)), TRUE,
              <<Object(<<"r","a","g","-","d","a","t","a","/","e","m","p","t","y",".","t","x","t">>, TRUE, Text(<< >>))>>)}

Messages ==
  { <<"W","h","a","t"," ","i","s"," ","y","o","u","r"," ","n","a","m","e","?">>,
    <<"h","e","l","l","o">>,
    <<"T","e","l","l"," ","m","e"," ","a","b","o","u","t"," ","O","u","s","s","e","i","n","i">>,
    <<"W","h","a","t"," ","A","I"," ","c","e","r","t","i","f","i","c","a","t","i","o","n","s"," ","d","o"," ","y","o","u"," ","h","a","v","e","?">>,
    <<"W","h","a","t"," ","c","e","r","t","i","f","i","c","a","t","i","o","n","s"," ","d","o"," ","y","o","u"," ","h","a","v","e","?">>,
    <<"H","o","w"," ","c","a","n"," ","I"," ","h","i","r","e"," ","y","o","u","?">>,
    <<"D","o"," ","y","o","u"," ","t","e","a","c","h","?">>,
    <<"W","h","a","t"," ","a","r","e"," ","y","o","u","r"," ","c","o","r","e"," ","s","k","i","l","l","s","?">>,
    <<"W","h","a","t"," ","A","I"," ","p","r","o","j","e","c","t","s"," ","h","a","v","e"," ","y","o","u"," ","b","u","i","l","t","?">>,
    <<"W","h","e","r","e"," ","i","s"," ","O","u","s","s","e","i","n","i"," ","b","a","s","e","d","?">>,
    <<"W","h","a","t"," ","l","e","a","d","e","r","s","h","i","p"," ","e","x","p","e","r","i","e","n","c","e","?">>,
    <<"y","o">>,
    <<"h","e","l","l","o"," ","a","s","s","i","s","t","a","n","t",","," ","y","o","u","r"," ","n","a","m","e">>,
    <<"c","o","m","m","e","n","t"," ","c","o","n","t","a","c","t","e","r"," ","O","u","s","s","e","i","n","i">>,
    <<"b","o","n","j","o","u","r">> }

\* the messages that are also sent without a name and with a name to clean
NamedMessages ==
  { <<"h","e","l","l","o">>, <<"W","h","e","r","e"," ","i","s"," ","O","u","s","s","e","i","n","i"," ","b","a","s","e","d","?">>, <<"W","h","a","t"," ","A","I"," ","p","r","o","j","e","c","t","s"," ","h","a","v","e"," ","y","o","u"," ","b","u","i","l","t","?">> }
OtherNames == { << >>, <<"B","0","b","!">> }

Body(present, valid, message, name) ==
  [present |-> present, valid |-> valid, message |-> message, name |-> name]
Event(method, path, body) == [method |-> method, path |-> path, body |-> body]

Events ==
  {Event(<<"P","O","S","T">>, <<"/","c","h","a","t">>, Body(TRUE, TRUE, m, <<"B","o","b">>)) : m \in Messages}
  \cup {Event(<<"P","O","S","T">>, <<"/","c","h","a","t">>, Body(TRUE, TRUE, m, n)) :
          m \in NamedMessages, n \in OtherNames}
  \cup {Event(<<"G","E","T">>, <<"/","p","r","o","d","/","s","t","a","t","u","s">>, Body(FALSE, TRUE, << >>, << >>)),
        Event(<<"G","E","T">>, <<"/","s","t","a","t","u","s">>, Body(TRUE, FALSE, << >>, << >>)),
        Event(<<"g","e","t">>, <<"/","S","t","a","t","u","s">>, Body(TRUE, TRUE, << >>, <<"B","o","b">>)),
        Event(<<"G","E","T">>, <<"/","s","t","a","t","u","s">>, Body(TRUE, TRUE, <<"h","e","l","l","o">>, <<"B","o","b">>)),
        Event(<<"P","O","S","T">>, <<"/","s","t","a","t","u","s">>, Body(FALSE, TRUE, << >>, << >>)),
        Event(<<"G","E","T">>, <<"/","s","t","a","t","u","s","/","c","h","a","t">>, Body(TRUE, TRUE, <<"h","e","l","l","o">>, <<"B","o","b">>)),
        Event(<<"P","O","S","T">>, <<"/","c","h","a","t">>, Body(FALSE, TRUE, << >>, << >>)),
        Event(<<"P","O","S","T">>, <<"/","c","h","a","t">>, Body(TRUE, TRUE, << >>, <<"B","o","b">>)),
        Event(<<"P","O","S","T">>, <<"/","c","h","a","t">>, Body(TRUE, FALSE, << >>, << >>))}

\* the body of the generation response: the known fields, empty when absent
GenBody(generated_text, generation, outputText, completion) ==
  [generated_text |-> generated_text, generation |-> generation,
   outputText |-> outputText, completion |-> completion]

GeneratedTexts ==
  { <<"O","u","s","s","e","i","n","i"," ","i","s"," ","b","a","s","e","d"," ","i","n"," ","N","i","a","m","e","y","."," ","H","e"," ","t","e","a","c","h","e","s"," ","A","I","."," ","H","e"," ","l","i","k","e","s"," ","S","3",".">>,
    <<"Q","u","e","s","t","i","o","n",":"," ","q","u","e","s","t","i","o","n",":"," ","A","W","S">>,
    <<"-"," ","-"," ","A","W","S"," ","a","n","d"," ","*","*","A","z","u","r","e","*","*">>,
    <<"I"," ","d","o","n","'","t"," ","k","n","o","w","."," ","H","o","w"," ","c","a","n"," ","I"," ","h","e","l","p"," ","f","u","r","t","h","e","r",","," ","B","o","b","?">>,
    <<"backtick","backtick","backtick","j","s","\n","l","e","t"," ","x","backtick","backtick","backtick">>,
    <<"S","e","e"," ","h","t","t","p","s",":","/","/","x",".","i","o","/","a"," ","n","o","w">>,
    <<"W","h","e","r","e"," ","i","s"," ","O","u","s","s","e","i","n","i"," ","b","a","s","e","d","?",":"," ","I","n"," ","N","i","a","m","e","y",".">>,
    <<"y","o",":"," ","H","e","l","l","o"," ","t","h","e","r","e",".">>,
    <<"I"," ","a","m"," ","n","o","t"," ","s","u","r","e",".">> }

GenOutcomes ==
  {[ok |-> TRUE, valid |-> TRUE, body |-> GenBody(<< >>, t, << >>, << >>)] :
     t \in GeneratedTexts}
  \cup {[ok |-> TRUE, valid |-> TRUE, body |-> GenBody(<< >>, << >>, << >>, << >>)],
        [ok |-> TRUE, valid |-> TRUE,
         body |-> GenBody(<<"F","r","o","m"," ","r","e","s","u","l","t","s",".">>, << >>, <<"F","r","o","m"," ","o","u","t","p","u","t","T","e","x","t",".">>, << >>)],
        [ok |-> TRUE, valid |-> FALSE, body |-> GenBody(<< >>, << >>, << >>, << >>)],
        [ok |-> FALSE, valid |-> FALSE, body |-> GenBody(<< >>, << >>, << >>, << >>)]}

\* direct calls of the scorer
NoCall == [userMessage |-> << >>, portfolioDocs |-> NotAnArray]
NoResult == [context |-> << >>, sources |-> << >>]
ScorerCall(q, d) == [userMessage |-> q, portfolioDocs |-> d]

ScorerCorpora ==
  { NotAnArray,
    ArrayOf(<< >>),
    ArrayOf(<<AboutDoc, SkillsDoc, ScrapedDoc>>),
    ArrayOf(<<AICertDoc, CloudCertDoc, CertListDoc, AboutDoc>>),
    ArrayOf(<<RosterDoc>>),
    ArrayOf(<<LongDoc(1), LongDoc(2)>>),
    ArrayOf(<<LongDoc(1), LongDoc(2), LongDoc(3), AboutDoc>>),
    ArrayOf(<<ManySkillsDoc, RosterDoc, LongDoc(3)>>),
    ArrayOf(<<RosterDoc, AboutDoc, CloudCertDoc, CertListDoc, AICertDoc, SkillsDoc>>),
    ArrayOf(<<SkillsDoc, AboutTwin>>) }

ScorerCalls ==
  {ScorerCall(m, d) : m \in Messages \cup {<<"a","n","y"," ","c","e","r","t","i","f","s","?">>, <<" ","H","e","l","l","o"," "," ">>,
                                           <<"h","e","l","l","o"," ","w","h","e","r","e"," ","i","s"," ","O","u","s","s","e","i","n","i"," ","b","a","s","e","d","?">>},
                      d \in ScorerCorpora}

(***************************************************************************)
(* The handler, one action per stretch of code between two awaits          *)
(***************************************************************************)
NoEvent == Event(<< >>, << >>, Body(FALSE, TRUE, << >>, << >>))

\* the locals of one invocation of the handler, as they are when it starts:
\* every `const` and `let` of the handler and of loadPortfolioDocsFromS3 is
\* declared inside the function bodies
Fresh(ev) ==
  [event |-> ev, pc |-> "start", userName |-> << >>, isFrench |-> FALSE,
   docs |-> << >>, pending |-> << >>, portfolioDocs |-> << >>,
   decision |-> NoDecision, generated |-> << >>, response |-> NoResponse,
   getCalls |-> 0, listCalls |-> 0, genCalls |-> 0, stale |-> FALSE]
\* no second invocation
NoOthers == [saved |-> Fresh(NoEvent), stale |-> FALSE]

Init ==
  /\ event \in Events
  /\ store \in Stores
  /\ pc = "start"
  /\ userName = << >>
  /\ isFrench = FALSE
  /\ docs = << >>
  /\ pending = << >>
  /\ portfolioDocs = << >>
  /\ decision = NoDecision
  /\ generated = << >>
  /\ response = NoResponse
  /\ getCalls = 0
  /\ listCalls = 0
  /\ genCalls = 0
  /\ call = NoCall
  /\ result = NoResult
  /\ others = NoOthers

Finish(r) == pc' = "done" /\ response' = r

\* the handler without the early return of index.js:346-353
MutReceive ==
  /\ pc = "start"
  /\ UNCHANGED <<others, event, store, docs, pending, portfolioDocs, decision, generated,
                 getCalls, listCalls, genCalls, call, result>>
  /\ IF IsStatusRequest(event)
       THEN Finish(StatusPayload) /\ UNCHANGED <<userName, isFrench>>
     ELSE IF event.body.present /\ ~event.body.valid
       THEN Finish(Failure(BodyParse)) /\ UNCHANGED <<userName, isFrench>>
     ELSE IF NoMessage(event.body)
       THEN /\ Finish(Invalid)
            /\ userName' = CleanName(event.body.name)
            /\ UNCHANGED isFrench
     ELSE /\ userName' = CleanName(event.body.name)
          /\ isFrench' = (detectLanguage(event.body.message) = "fr")
          /\ pc' = "legacy" /\ UNCHANGED response
\* index.js:311-353: the status route, the parsing and validation of the
\* body, the French disclaimer; then loadPortfolioDocsFromS3 starts and
\* awaits the legacy snapshot
Receive ==
  /\ pc = "start"
  /\ UNCHANGED <<others, event, store, docs, pending, portfolioDocs, decision, generated,
                 getCalls, listCalls, genCalls, call, result>>
  /\ IF IsStatusRequest(event)
       THEN Finish(StatusPayload) /\ UNCHANGED <<userName, isFrench>>
     ELSE IF event.body.present /\ ~event.body.valid
       THEN Finish(Failure(BodyParse)) /\ UNCHANGED <<userName, isFrench>>
     ELSE IF NoMessage(event.body)
       THEN /\ Finish(Invalid)
            /\ userName' = CleanName(event.body.name)
            /\ UNCHANGED isFrench
     ELSE \E french \in {detectLanguage(event.body.message) = "fr"} :
            /\ userName' = CleanName(event.body.name)
            /\ isFrench' = french
            /\ IF french
                 THEN Finish(Message(200, FrenchDisclaimer))
                 ELSE pc' = "legacy" /\ UNCHANGED response

\* index.js:150-164: the legacy snapshot is read; a failure is skipped
LoadLegacy ==
  /\ pc = "legacy"
  /\ getCalls' = getCalls + 1
  /\ docs' = IF store.legacy.status = "ok" THEN ParsedDocs(store.legacy.body) ELSE << >>
  /\ pc' = "list"
  /\ UNCHANGED <<others, event, store, userName, isFrench, pending, portfolioDocs, decision, generated,
                 response, listCalls, genCalls, call, result>>

\* the loop's `continue`s are synchronous: the next object that is read
RECURSIVE DropSkipped(_)
DropSkipped(objects) ==
  IF objects # << >> /\ SkippedKey(Head(objects).key)
    THEN DropSkipped(Tail(objects)) ELSE objects

\* index.js:167-172 and 192-194: the listing; a failure ends the loading
ListPrefix ==
  /\ pc = "list"
  /\ listCalls' = listCalls + 1
  /\ pending' = IF store.listable THEN DropSkipped(store.objects) ELSE << >>
  /\ pc' = IF pending' = << >> THEN "route" ELSE "object"
  /\ UNCHANGED <<others, event, store, userName, isFrench, docs, portfolioDocs, decision, generated,
                 response, getCalls, genCalls, call, result>>

\* GetObject of a listed key: the object the store holds under it now, or
\* NoSuchKey when it holds none
Stored(objects, key) ==
  IF \E k \in 1..Len(objects) : objects[k].key = key
    THEN objects[CHOOSE k \in 1..Len(objects) : objects[k].key = key]
    ELSE Object(key, FALSE, BadJson)

\* index.js:174-190: one listed object is read; a failure is skipped
ReadObject ==
  /\ pc = "object"
  /\ getCalls' = getCalls + 1
  /\ \E obj \in {Stored(store.objects, Head(pending).key)} :
       docs' = IF obj.readable THEN docs \o ObjectDocs(obj) ELSE docs
  /\ pending' = DropSkipped(Tail(pending))
  /\ pc' = IF pending' = << >> THEN "route" ELSE "object"
  /\ UNCHANGED <<others, event, store, userName, isFrench, portfolioDocs, decision, generated,
                 response, listCalls, genCalls, call, result>>

\* index.js:196-208 and 355-635: the loader deduplicates and returns; the
\* request is routed, and either answered or sent to the generation
Dispatch ==
  /\ pc = "route"
  /\ UNCHANGED <<others, event, store, userName, isFrench, docs, pending, generated, getCalls,
                 listCalls, genCalls, call, result>>
  /\ IF DedupeThrows(docs)
       THEN /\ Finish(Failure(DedupeLoop))
            /\ UNCHANGED <<portfolioDocs, decision>>
       ELSE \E deduped \in {Dedupe(docs)} :
              \E routed \in {Route(event.body.message, userName, isFrench, deduped)} :
                /\ portfolioDocs' = deduped
                /\ decision' = routed
                /\ IF routed.generate
                     THEN pc' = "generate" /\ UNCHANGED response
                     ELSE Finish(Message(200, routed.message))

\* index.js:592-616 and 652-732: the generation call returns (or fails), the
\* text is extracted and sanitized, the reply is returned
Generate ==
  /\ pc = "generate"
  /\ genCalls' = genCalls + 1
  /\ UNCHANGED <<others, event, store, userName, isFrench, docs, pending, portfolioDocs, decision,
                 getCalls, listCalls, call, result>>
  /\ \E g \in GenOutcomes :
       IF ~g.ok \/ ~g.valid
         THEN /\ Finish(Failure(IF g.ok THEN GenerationParse ELSE GenerationCall))
              /\ UNCHANGED generated
         ELSE \E text \in {ExtractText(g.body)} :
                /\ generated' = text
                /\ Finish(Message(200,
                     IF decision.intent = "AIProject"
                       THEN cleanStarOutput(text)
                       ELSE sanitize(text, event.body.message, userName, isFrench)))

Next == Receive \/ LoadLegacy \/ ListPrefix \/ ReadObject \/ Dispatch \/ Generate

Spec == Init /\ [][Next]_vars

(***************************************************************************)
(* Two invocations of the handler in flight, and a store that changes      *)
(***************************************************************************)
ConcEvents ==
  { Event(<<"P","O","S","T">>, <<"/","c","h","a","t">>, Body(TRUE, TRUE, <<"D","o"," ","y","o","u"," ","t","e","a","c","h","?">>, <<"B","o","b">>)),
    Event(<<"P","O","S","T">>, <<"/","c","h","a","t">>, Body(TRUE, TRUE, <<"W","h","e","r","e"," ","i","s"," ","O","u","s","s","e","i","n","i"," ","b","a","s","e","d","?">>, <<"A","l">>)) }

\* the store before and after its owner rewrites it
OldStore ==
  Store(Legacy("ok", JsonArray(<<AboutDoc>>)), TRUE,
        <<Object(<<"r","a","g","-","d","a","t","a","/","o","n","e",".","j","s","o","n">>, TRUE, JsonObject(SkillsDoc))>>)
NewStore ==
  Store(Legacy("ok", JsonArray(<<ShadowDoc>>)), TRUE,
        <<Object(<<"r","a","g","-","d","a","t","a","/","c","o","n","f","i","g",".","j","s","o","n">>, TRUE, JsonArray(<<AboutDoc, SkillsDoc>>))>>)
ConcStores == {OldStore, NewStore}

ConcInit ==
  /\ event \in ConcEvents
  /\ store \in ConcStores
  /\ pc = "start"
  /\ userName = << >>
  /\ isFrench = FALSE
  /\ docs = << >>
  /\ pending = << >>
  /\ portfolioDocs = << >>
  /\ decision = NoDecision
  /\ generated = << >>
  /\ response = NoResponse
  /\ getCalls = 0
  /\ listCalls = 0
  /\ genCalls = 0
  /\ call = NoCall
  /\ result = NoResult
  /\ \E ev \in ConcEvents : others = [saved |-> Fresh(ev), stale |-> FALSE]

\* the locals of the running invocation
Running ==
  [event |-> event, pc |-> pc, userName |-> userName, isFrench |-> isFrench,
   docs |-> docs, pending |-> pending, portfolioDocs |-> portfolioDocs,
   decision |-> decision, generated |-> generated, response |-> response,
   getCalls |-> getCalls, listCalls |-> listCalls, genCalls |-> genCalls,
   stale |-> others.stale]

\* a userName declared at module level: the running invocation keeps using
\* the value the other one wrote
MutYield ==
  /\ others.saved.pc # "done"
  /\ others' = [saved |-> Running, stale |-> others.saved.stale]
  /\ event' = others.saved.event
  /\ pc' = others.saved.pc
  /\ isFrench' = others.saved.isFrench
  /\ docs' = others.saved.docs
  /\ pending' = others.saved.pending
  /\ portfolioDocs' = others.saved.portfolioDocs
  /\ decision' = others.saved.decision
  /\ generated' = others.saved.generated
  /\ response' = others.saved.response
  /\ getCalls' = others.saved.getCalls
  /\ listCalls' = others.saved.listCalls
  /\ genCalls' = others.saved.genCalls
  /\ UNCHANGED <<userName, store, call, result>>
\* the running invocation is suspended (it awaits, or has returned) and the
\* other one runs: each has the locals of its own call of the handler
Yield ==
  /\ others.saved.pc # "done"
  /\ others' = [saved |-> Running, stale |-> others.saved.stale]
  /\ event' = others.saved.event
  /\ pc' = others.saved.pc
  /\ userName' = others.saved.userName
  /\ isFrench' = others.saved.isFrench
  /\ docs' = others.saved.docs
  /\ pending' = others.saved.pending
  /\ portfolioDocs' = others.saved.portfolioDocs
  /\ decision' = others.saved.decision
  /\ generated' = others.saved.generated
  /\ response' = others.saved.response
  /\ getCalls' = others.saved.getCalls
  /\ listCalls' = others.saved.listCalls
  /\ genCalls' = others.saved.genCalls
  /\ UNCHANGED <<store, call, result>>

\* an invocation that has sent its first GetObject
Reading(at) == at \notin {"start", "legacy"}

\* the store is rewritten by its owner; `stale` remembers, for the model
\* only, the invocations that had begun to read it
ChangeStore ==
  /\ store = OldStore
  /\ store' = NewStore
  /\ others' = [saved |-> [others.saved EXCEPT !.stale = @ \/ Reading(others.saved.pc)],
                stale |-> others.stale \/ Reading(pc)]
  /\ UNCHANGED <<event, pc, userName, isFrench, docs, pending, portfolioDocs, decision,
                 generated, response, getCalls, listCalls, genCalls, call, result>>

ConcNext == Next \/ Yield \/ ChangeStore

ConcSpec == ConcInit /\ [][ConcNext]_vars

(***************************************************************************)
(* getRelevantContext called directly (simple-rag.js:70 exports it)        *)
(***************************************************************************)

ScorerInit ==
  /\ call \in ScorerCalls
  /\ result = NoResult
  /\ pc = "call"
  /\ event = NoEvent
  /\ store = Store(LegacyMissing, FALSE, << >>)
  /\ userName = << >>
  /\ isFrench = FALSE
  /\ docs = << >>
  /\ pending = << >>
  /\ portfolioDocs = << >>
  /\ decision = NoDecision
  /\ generated = << >>
  /\ response = NoResponse
  /\ getCalls = 0
  /\ listCalls = 0
  /\ genCalls = 0
  /\ others = NoOthers

Score ==
  /\ pc = "call"
  /\ result' = getRelevantContext(call.userMessage, call.portfolioDocs)
  /\ pc' = "returned"
  /\ UNCHANGED <<others, event, store, userName, isFrench, docs, pending, portfolioDocs, decision,
                 generated, response, getCalls, listCalls, genCalls, call>>

ScorerNext == Score

ScorerSpec == ScorerInit /\ [][ScorerNext]_vars


(***************************************************************************)
(* Properties                                                              *)
(***************************************************************************)
\* the routing has just decided: the state every routed request passes
\* through once, before any generation call returns
Routed == decision.intent # "none" /\ genCalls = 0
\* the request is answered
Answered == pc = "done" /\ decision.intent # "none"

HelpFurther == <<"."," ","H","o","w"," ","c","a","n"," ","I"," ","h","e","l","p"," ","f","u","r","t","h","e","r","?">>
NoInformationText ==
  <<"I"," ","d","o","n","'","t"," ","h","a","v","e"," ","t","h","a","t"," ","s","p","e","c","i","f","i","c"," ","i","n","f","o","r","m","a","t","i","o","n">> \o NamePhrase(userName) \o HelpFurther
NoAIProjectText ==
  <<"I"," ","d","o","n","'","t"," ","h","a","v","e"," ","s","p","e","c","i","f","i","c"," ","A","I"," ","p","r","o","j","e","c","t"," ","i","n","f","o","r","m","a","t","i","o","n">> \o NamePhrase(userName) \o HelpFurther

\* a request that reached retrieval and for which the scorer returned an
\* empty or whitespace-only context
NoContext ==
  /\ Answered
  /\ decision.intent \in {"AIProject", "General"}
  /\ IsBlank(decision.context)

(* C1, as stated: whenever the scorer returns an empty or whitespace-only   *)
(* context for a request that reached retrieval (AIProject or General), the *)
(* handler answers with status 200 and the message "I don't have that       *)
(* specific information... How can I help further?", and generation is      *)
(* invoked zero times.                                                      *)
C1_Original ==
  NoContext => response = Message(200, NoInformationText) /\ genCalls = 0

(* C1, amended: in that case the handler answers with status 200 and a      *)
(* fixed message without invoking generation: "I don't have that specific   *)
(* information..." on the General path, "I don't have specific AI project   *)
(* information..." on the AIProject path.                                   *)
C1_Amended ==
  NoContext =>
    /\ genCalls = 0
    /\ response = Message(200, IF decision.intent = "AIProject"
                                 THEN NoAIProjectText ELSE NoInformationText)

C1_Witness ==
  /\ NoContext
  /\ decision.intent = "AIProject"
  /\ response = Message(200, <<"I"," ","d","o","n","'","t"," ","h","a","v","e"," ","s","p","e","c","i","f","i","c"," ","A","I"," ","p","r","o","j","e","c","t"," ","i","n","f","o","r","m","a","t","i","o","n",","," ","B","o","b","."," ","H","o","w"," ","c","a","n"," ","I"," ","h","e","l","p"," ","f","u","r","t","h","e","r","?">>)
  /\ genCalls = 0

(* C2: for every query and every array of documents (and for an argument    *)
(* that is no array), the context returned by getRelevantContext is at most *)
(* 1500 characters long.                                                    *)
C2_ContextBounded == pc = "returned" => Len(result.context) <= 1500

\* the pieces of the selected documents were longer than the limit
C2_Witness ==
  /\ pc = "returned"
  /\ call.portfolioDocs.isArray
  /\ Len(call.portfolioDocs.items) >= 3
  /\ \A k \in 1..3 : Len(call.portfolioDocs.items[k].content) > 600
  /\ Len(result.context) = 1500

(* C3, as stated: the sanitation pipeline is idempotent: with the user      *)
(* message, the user name and the language held fixed, the pipeline applied *)
(* to its own output gives that output again.                               *)
C3_Idempotent ==
  (Answered /\ decision.intent = "General" /\ genCalls = 1
            /\ response.kind = "message")
    => sanitize(response.message, bodyMessage, userName, isFrench) = response.message

\* a reply that the pipeline changes again
C3_Witness ==
  /\ Answered /\ decision.intent = "General" /\ genCalls = 1
  /\ generated = <<"Q","u","e","s","t","i","o","n",":"," ","q","u","e","s","t","i","o","n",":"," ","A","W","S">>
  /\ response = Message(200, <<"q","u","e","s","t","i","o","n",":"," ","A","W","S",".">>)

\* the deduplication key of a document, as the specification words it
KeyOf(d) ==
  Trim(d.title) \o <<":",":">> \o SubSeq(d.content, 1, IF Len(d.content) < 40
                                                   THEN Len(d.content) ELSE 40)
\* the documents the legacy snapshot contributed
LegacyDocs ==
  IF store.legacy.status = "ok" THEN ParsedDocs(store.legacy.body) ELSE << >>

(* C4: the corpus returned by loadPortfolioDocsFromS3 never holds two       *)
(* documents with the same key title.trim() + '::' + content.slice(0, 40);  *)
(* it is the subsequence of the collected documents that keeps the first    *)
(* occurrence of each key, in collection order, the documents of the legacy *)
(* snapshot before those of the listed objects.                             *)
C4_Dedupe ==
  decision.intent # "none" =>
    /\ \A i, j \in 1..Len(portfolioDocs) :
         i # j => KeyOf(portfolioDocs[i]) # KeyOf(portfolioDocs[j])
    /\ portfolioDocs =
         Pick(docs, {k \in 1..Len(docs) :
                       \A j \in 1..(k - 1) : KeyOf(docs[j]) # KeyOf(docs[k])})
    /\ SubSeq(docs, 1, Len(LegacyDocs)) = LegacyDocs

\* a listed object repeated a document of the legacy snapshot
C4_Witness ==
  /\ decision.intent # "none"
  /\ LegacyDocs # << >>
  /\ Len(docs) > Len(LegacyDocs)
  /\ Len(portfolioDocs) < Len(docs)

(* C5, as stated: for every content of the document store and every user    *)
(* name, a request whose message is "What is your name?" gets status 200    *)
(* with the message exactly "Sensei", and generation is not invoked.        *)
C5_AlwaysSensei ==
  (pc = "done" /\ bodyMessage = <<"W","h","a","t"," ","i","s"," ","y","o","u","r"," ","n","a","m","e","?">>)
    => response = Message(200, <<"S","e","n","s","e","i">>) /\ genCalls = 0

\* the request for the agent's name answered with an error
C5_Witness ==
  /\ pc = "done"
  /\ bodyMessage = <<"W","h","a","t"," ","i","s"," ","y","o","u","r"," ","n","a","m","e","?">>
  /\ response.status = 500

\* the intents in the order of their checks
Priority ==
  << "Greeting", "AgentName", "About", "AICert", "Cert", "Contact", "Teaching",
     "Skills", "AIProject", "General" >>
Rank(intent) == CHOOSE k \in 1..Len(Priority) : Priority[k] = intent

\* the predicate of an intent matches the message
Matches(intent, m) ==
  CASE intent = "Greeting"  -> isGreeting(m)
    [] intent = "AgentName" -> wantsAgentName(m)
    [] intent = "About"     -> wantsAbout(m)
    [] intent = "AICert"    -> wantsAICerts(m)
    [] intent = "Cert"      -> wantsCerts(m)
    [] intent = "Contact"   -> TestI(ContactRe, m) \/ TestI(ContactFrRe, m)
    [] intent = "Teaching"  -> wantsTeaching(m)
    [] intent = "Skills"    -> wantsSkills(m)
    [] intent = "AIProject" -> wantsAIProjects(m)
    [] intent = "General"   -> TRUE

\* the handler of an intent finds a document to answer from
Answers(intent, configOnlyDocs) ==
  CASE intent = "About"    -> AboutAnswer(configOnlyDocs)[1]
    [] intent = "AICert"   -> AICertAnswer(configOnlyDocs)[1]
    [] intent = "Cert"     -> CertAnswer(configOnlyDocs)[1]
    [] intent = "Teaching" -> TeachingAnswer(configOnlyDocs)[1]
    [] OTHER -> TRUE

CertFormRe == Cat(<<Bos, Lit(<<"c","e","r","t","i","f","i","c","a","t","i","o","n",":">>), SP0, Plus(Dot), Eos>>)
\* the <name> parts of the config-sourced documents of that form, in order
FormNames ==
  [k \in 1..Len(portfolioDocs) |->
     IF /\ Lower(portfolioDocs[k].source) = <<"c","o","n","f","i","g",".","j","s">>
        /\ TestI(CertFormRe, portfolioDocs[k].title)
       THEN Trim(SubSeq(portfolioDocs[k].title, 15, Len(portfolioDocs[k].title)))
       ELSE << >>]

(* C7, as stated: for a message answered by the CertQuery intent, the reply *)
(* is the bullet list of the distinct <name> parts of the config-sourced    *)
(* documents titled "Certification: <name>", each prefixed with "- ", in    *)
(* first-seen order, and no entry comes from a document whose title does    *)
(* not have that form.                                                      *)
C7_OnlyCertificationTitles ==
  (Answered /\ decision.intent = "Cert")
    => response = Message(200, BulletList(Distinct(SelectNonEmpty(FormNames))))

\* the merged list document of the extractor gives a bullet of its own
C7_Witness ==
  /\ Answered /\ decision.intent = "Cert"
  /\ response.message = <<"-"," ","C","l","o","u","d"," ","P","r","a","c","t","i","t","i","o","n","e","r","\n","-"," ","C","e","r","t","i","f","i","c","a","t","i","o","n","s">>

(* C8, as stated: for a message that mentions both AI and certification     *)
(* terms, the reply never lists a certification whose document title and    *)
(* content mention no AI/ML term, whether or not an AI-related              *)
(* certification exists in the corpus.                                      *)
C8_OnlyAICertifications ==
  (Answered /\ wantsAICerts(bodyMessage) /\ response.kind = "message")
    => \A k \in 1..Len(portfolioDocs) :
         (/\ TestI(CertFormRe, portfolioDocs[k].title)
          /\ ~TestI(HasAIRe, portfolioDocs[k].title \o <<" ">> \o portfolioDocs[k].content))
           => ~Includes(response.message, <<"-"," ">> \o FormNames[k])

\* the question about AI certifications answered with a cloud certification
C8_Witness ==
  /\ Answered
  /\ bodyMessage = <<"W","h","a","t"," ","A","I"," ","c","e","r","t","i","f","i","c","a","t","i","o","n","s"," ","d","o"," ","y","o","u"," ","h","a","v","e","?">>
  /\ response = Message(200, <<"-"," ","C","l","o","u","d"," ","P","r","a","c","t","i","t","i","o","n","e","r">>)

ContactUrl == <<"h","t","t","p","s",":","/","/","o","u","s","s","e","i","n","i","o","u","m","a","r","o","u",".","c","o","m","/","#","c","o","n","t","a","c","t">>

(* C9: a message that matches the contact, pricing, availability or hiring  *)
(* patterns and is not taken by a higher-priority intent gets the fixed     *)
(* redirect message with the URL https://ousseinioumarou.com/#contact, the  *)
(* same for every corpus, and generation is not invoked.                    *)
C9_ContactRedirect ==
  (/\ Answered
   /\ TestI(ContactRe, bodyMessage) \/ TestI(ContactFrRe, bodyMessage)
   /\ decision.intent \notin {"Greeting", "AgentName", "About", "AICert", "Cert"})
    => /\ response = Message(200, <<"F","o","r"," ","p","r","i","c","i","n","g",","," ","a","v","a","i","l","a","b","i","l","i","t","y",","," ","c","o","l","l","a","b","o","r","a","t","i","o","n"," ","o","r"," ","d","i","r","e","c","t"," ","c","o","n","t","a","c","t"," ","p","l","e","a","s","e"," ","u","s","e"," ","t","h","e"," ","w","e","b","s","i","t","e"," ","c","o","n","t","a","c","t"," ","p","a","g","e",":"," ">> \o ContactUrl)
       /\ genCalls = 0

C9_Witness ==
  /\ Answered
  /\ bodyMessage = <<"H","o","w"," ","c","a","n"," ","I"," ","h","i","r","e"," ","y","o","u","?">>
  /\ portfolioDocs # << >>
  /\ Includes(response.message, ContactUrl)
  /\ genCalls = 0

\* the bullets of a reply: its lines without their first two characters
Bullets_(message) ==
  [k \in 1..Len(SplitLines(message)) |->
     SubSeq(SplitLines(message)[k], 3, Len(SplitLines(message)[k]))]
\* the config-sourced documents of the corpus titled Skills
SkillsDocs ==
  {k \in 1..Len(portfolioDocs) :
     /\ Lower(portfolioDocs[k].source) = <<"c","o","n","f","i","g",".","j","s">>
     /\ Lower(portfolioDocs[k].title) = <<"s","k","i","l","l","s">>}

GeneralReply ==
  /\ Answered /\ decision.intent = "General" /\ genCalls = 1
  /\ response.kind = "message"
\* the generated text begins with the user question followed by a colon
EchoedQuestion == StartsWith(generated, bodyMessage \o <<":">>)

(* C11, as stated: for every user question, of any length, if the generated *)
(* text begins with the exact user question followed by a colon, the        *)
(* sanitized reply does not begin with that question text.                  *)
C11_NoLeadingQuestion ==
  (GeneralReply /\ EchoedQuestion) => ~StartsWith(response.message, bodyMessage)

\* a question of two characters comes back at the head of the reply
C11_Witness ==
  /\ GeneralReply
  /\ bodyMessage = <<"y","o">>
  /\ generated = <<"y","o",":"," ","H","e","l","l","o"," ","t","h","e","r","e",".">>
  /\ response = Message(200, <<"y","o",":"," ","H","e","l","l","o"," ","t","h","e","r","e",".">>)

\* a question of four characters or more is removed with its colon
C11_Stripped ==
  /\ GeneralReply
  /\ generated = <<"W","h","e","r","e"," ","i","s"," ","O","u","s","s","e","i","n","i"," ","b","a","s","e","d","?",":"," ","I","n"," ","N","i","a","m","e","y",".">>
  /\ bodyMessage = <<"W","h","e","r","e"," ","i","s"," ","O","u","s","s","e","i","n","i"," ","b","a","s","e","d","?">>
  /\ response = Message(200, <<"I","n"," ","N","i","a","m","e","y",".">>)

\* the intents answered from a template over the config-sourced documents
DirectIntents == {"About", "AICert", "Cert", "Teaching", "Skills"}
\* the routing of the same request when the store holds the config-sourced
\* documents of the collected ones, in the same order, and no other
ConfigStoreDecision ==
  Route(bodyMessage, userName, isFrench, Dedupe(ConfigOnly(docs)))
SameDirect(actual, reference) ==
  (actual.intent \in DirectIntents \/ reference.intent \in DirectIntents)
    => actual.intent = reference.intent /\ actual.message = reference.message

(* C12, as stated: the direct answers of the About, AICert, Cert, Teaching  *)
(* and Skills templates depend only on the config-sourced documents of the  *)
(* store: the request gets the direct answer it gets from the store that    *)
(* holds the same config-sourced documents in the same order and no         *)
(* document with another source.                                            *)
C12_ConfigOnlyAnswers == Routed => SameDirect(decision, ConfigStoreDecision)

\* no document with another source has the key of a config-sourced one
NoForeignTwin ==
  \A i, j \in 1..Len(docs) :
    (Lower(docs[i].source) = <<"c","o","n","f","i","g",".","j","s">> /\ Lower(docs[j].source) # <<"c","o","n","f","i","g",".","j","s">>)
      => KeyOf(docs[i]) # KeyOf(docs[j])
\* the same property for the stores without such a pair of documents
C12_WithoutTwin ==
  (Routed /\ NoForeignTwin) => SameDirect(decision, ConfigStoreDecision)

\* a document with another source took the place of the About document, which
\* is the one that answers a question about teaching
C12_Witness ==
  /\ Answered
  /\ bodyMessage = <<"D","o"," ","y","o","u"," ","t","e","a","c","h","?">>
  /\ \E k \in 1..Len(docs) : docs[k] = AboutDoc
  /\ portfolioDocs = <<ShadowDoc, SkillsDoc>>
  /\ decision.intent = "General"
  /\ ConfigStoreDecision.intent = "Teaching"
  /\ ConfigStoreDecision.message = <<"I"," ","t","e","a","c","h"," ","A","I"," ","a","t"," ","a"," ","u","n","i","v","e","r","s","i","t","y",".">>

\* the loader returned a corpus of zero documents and the request was routed
EmptyCorpus == decision.intent # "none" /\ portfolioDocs = << >>

(* C13, as stated: when the loaded corpus holds zero documents, no request  *)
(* invokes the generation capability, whatever the message: the reply is a  *)
(* deterministic one.                                                       *)
C13_NoGenerationWithoutDocuments ==
  EmptyCorpus => ~decision.generate /\ genCalls = 0

\* the scorer's greeting context sent "yo" to the generation
C13_Witness ==
  /\ EmptyCorpus
  /\ pc = "done"
  /\ bodyMessage = <<"y","o">>
  /\ decision.intent = "General"
  /\ StartsWith(decision.context, <<"T","h","i","s"," ","i","s"," ","a"," ","g","r","e","e","t","i","n","g",".">>)
  /\ genCalls = 1

\* the other messages get a deterministic reply from the empty corpus
C13_OtherMessages ==
  (EmptyCorpus /\ bodyMessage # <<"y","o">>) => ~decision.generate /\ genCalls = 0

\* the request reached the loader
Loaded == getCalls > 0 /\ pc \in {"generate", "done"}
\* the documents the store gives to a loader that skips what fails: the
\* legacy snapshot when it is read and parsed, then every listed object that
\* is read and parsed
RECURSIVE ReadableDocs(_)
ReadableDocs(objects) ==
  IF objects = << >> THEN << >>
  ELSE (IF SkippedKey(Head(objects).key) \/ ~Head(objects).readable THEN << >>
        ELSE ObjectDocs(Head(objects)))
       \o ReadableDocs(Tail(objects))
StoreDocs ==
  LegacyDocs \o (IF store.listable THEN ReadableDocs(store.objects) ELSE << >>)

(* C14, as stated: for every combination of store failures (legacy snapshot *)
(* missing or unreadable, listing failure, failed read of an object,        *)
(* malformed JSON in an object, a malformed entry inside a JSON array) the  *)
(* loader completes without raising and returns the documents that were     *)
(* read, and the request is not answered with an error because of it.       *)
C14_LoaderNeverRaises ==
  Loaded =>
    /\ docs = StoreDocs
    /\ decision.intent # "none"
    /\ genCalls = 0 => response.kind # "error"

\* a null entry of the legacy array ended the request with status 500
C14_Witness ==
  /\ Loaded
  /\ \E k \in 1..Len(docs) : docs[k].null
  /\ decision.intent = "none"
  /\ response.kind = "error" /\ response.status = 500

\* every failure but the malformed entry is skipped: the corpus is what was
\* read, down to the empty one
C14_OtherFailures ==
  (Loaded /\ \A k \in 1..Len(docs) : ~docs[k].null) =>
    /\ docs = StoreDocs
    /\ decision.intent # "none"
    /\ genCalls = 0 => response.kind # "error"

\* the generation call of the request has returned or failed
GenerationOver == pc = "done" /\ genCalls = 1
SorryText == <<"S","o","r","r","y",","," ","I"," ","c","o","u","l","d"," ","n","o","t"," ","g","e","n","e","r","a","t","e"," ","a"," ","r","e","s","p","o","n","s","e",".">>
\* no text came out of the generation: the call or the parsing of its
\* response failed (nothing was extracted), or every known field was empty
NoGeneratedText == generated = << >> \/ generated = SorryText

(* C15, as stated: a generation failure (network error of the call,         *)
(* malformed response body, or empty text under every known field) gives no *)
(* error response: the reply is the sanitized literal "Sorry, I could not   *)
(* generate a response." with status 200.                                   *)
C15_FallbackOnFailure ==
  GenerationOver =>
    /\ response.kind = "message" /\ response.status = 200
    /\ NoGeneratedText => response.message = SorryText

\* a failed call, or a response that does not parse, answered with status 500
C15_Witness ==
  /\ GenerationOver
  /\ generated = << >>
  /\ response.kind = "error" /\ response.status = 500

\* a parsed response without text under every known field gets the fallback
C15_EmptyText ==
  (GenerationOver /\ response.kind = "message" /\ generated = SorryText)
    => response = Message(200, SorryText)
C15_EmptyTextReached ==
  GenerationOver /\ generated = SorryText /\ response = Message(200, SorryText)

\* a GET request whose path ends in /status, in any case of the letters
StatusRoute == Lower(event.method) = <<"g","e","t">> /\ EndsWith(Lower(event.path), <<"/","s","t","a","t","u","s">>)
\* a request of the chat route whose body is absent, or parses and carries
\* no message or an empty one
WithoutMessage ==
  /\ ~StatusRoute
  /\ ~event.body.present \/ (event.body.valid /\ bodyMessage = << >>)
NoAccess == getCalls = 0 /\ listCalls = 0 /\ genCalls = 0

Raised ==
  \/ ~StatusRoute /\ event.body.present /\ ~event.body.valid
  \/ \E k \in 1..Len(docs) : docs[k].null
  \/ genCalls = 1 /\ generated = << >>

(* C17: the handler never propagates an exception: an exception raised     *)
(* anywhere in the request path (body parsing, the dedupe of the loaded     *)
(* documents, the generation call and the parsing of its response) is       *)
(* answered with status 500 and the generic error 'Internal server error'   *)
(* plus the exception's detail, and no other response carries an error      *)
(* detail.                                                                  *)
C17_ExceptionsAnswered ==
  pc = "done" =>
    /\ response.kind \in {"message", "status", "error"}
    /\ Raised =>
         /\ response.kind = "error" /\ response.status = 500
         /\ response.message = <<"I","n","t","e","r","n","a","l"," ","s","e","r","v","e","r"," ","e","r","r","o","r">>
         /\ response.details # << >>
    /\ ~Raised =>
         \/ "details" \notin DOMAIN response
         \/ response.details = << >>

\* the null entry of a document array: the TypeError of the dedupe loop
C17_Witness ==
  /\ pc = "done"
  /\ \E k \in 1..Len(docs) : docs[k].null
  /\ response = [status |-> 500, kind |-> "error",
                  message |-> <<"I","n","t","e","r","n","a","l"," ","s","e","r","v","e","r"," ","e","r","r","o","r">>, details |-> <<"d",".","t","i","t","l","e">>]

\* http:// or https:// followed by a character that is not white space
UrlAt(text, i, scheme) ==
  /\ i + Len(scheme) <= Len(text)
  /\ SubSeq(text, i, i + Len(scheme) - 1) = scheme
  /\ text[i + Len(scheme)] \notin {" ", "\n", "\t", "\r"}
HasUrl(text) ==
  \E i \in 1..Len(text) : UrlAt(text, i, <<"h","t","t","p",":","/","/">>) \/ UrlAt(text, i, <<"h","t","t","p","s",":","/","/">>)
\* a reply built from generated text
GeneratedReply ==
  pc = "done" /\ genCalls = 1 /\ generated # << >> /\ response.kind = "message"

(* C18: no reply built from generated text contains a URL (http:// or       *)
(* https:// followed by non-space characters), on every generation path:    *)
(* the general answer and the AI-project STAR answer.                       *)
C18_NoUrlInGeneratedReply == GeneratedReply => ~HasUrl(response.message)

\* the STAR answer of the AI-project path returns the URL of the generated text
C18_Witness ==
  /\ GeneratedReply
  /\ decision.intent = "AIProject"
  /\ generated = <<"S","e","e"," ","h","t","t","p","s",":","/","/","x",".","i","o","/","a"," ","n","o","w">>
  /\ response.message = <<"S","e","e"," ","h","t","t","p","s",":","/","/","x",".","i","o","/","a"," ","n","o","w">>

\* the general path removes every URL of the generated text
C18_GeneralPath ==
  (GeneratedReply /\ decision.intent # "AIProject") => ~HasUrl(response.message)
C18_GeneralPathStripped ==
  /\ GeneratedReply
  /\ decision.intent # "AIProject"
  /\ HasUrl(generated)
  /\ ~HasUrl(response.message)

\* the payload of the status route
StatusAnswer ==
  [status |-> 200, kind |-> "status", message |-> <<"o","k">>,
   fields |-> << "status", "region", "modelId", "bucket", "prefix", "time" >>]

(* C19: a GET request whose path ends in /status is answered with status    *)
(* 200 and the payload {status, region, modelId, bucket, prefix, time}      *)
(* before the body is parsed: it never gives a 400 (nor a 500 for a body    *)
(* that does not parse), and it performs no document load, no routing and   *)
(* no generation call.                                                      *)
C19_StatusRoute ==
  StatusRoute =>
    /\ NoAccess
    /\ docs = << >> /\ portfolioDocs = << >> /\ decision = NoDecision
    /\ pc \in {"start", "done"}
    /\ pc = "done" => response = StatusAnswer

\* a status request whose body does not parse, answered with the payload
C19_Witness ==
  /\ StatusRoute
  /\ event.body.present /\ ~event.body.valid
  /\ pc = "done"
  /\ response = StatusAnswer
  /\ NoAccess

\* the response of the handler to one request run alone, given what the
\* store returned to it and what the generation returned
AfterGeneration(ev, name, routed, g) ==
  IF ~g.ok THEN Failure(GenerationCall)
  ELSE IF ~g.valid THEN Failure(GenerationParse)
  ELSE Message(200,
         IF routed.intent = "AIProject"
           THEN cleanStarOutput(ExtractText(g.body))
           ELSE sanitize(ExtractText(g.body), ev.body.message, name, FALSE))
AfterRoute(ev, name, routed, g) ==
  IF routed.generate
    THEN AfterGeneration(ev, name, routed, g)
    ELSE Message(200, routed.message)
AfterLoad(ev, name, read, g) ==
  IF DedupeThrows(read) THEN Failure(DedupeLoop)
  ELSE AfterRoute(ev, name, Route(ev.body.message, name, FALSE, Dedupe(read)), g)
Alone(ev, read, g) ==
  IF IsStatusRequest(ev) THEN StatusPayload
  ELSE IF ev.body.present /\ ~ev.body.valid THEN Failure(BodyParse)
  ELSE IF NoMessage(ev.body) THEN Invalid
  ELSE IF detectLanguage(ev.body.message) = "fr" THEN Message(200, FrenchDisclaimer)
  ELSE AfterLoad(ev, CleanName(ev.body.name), read, g)
\* the text the generation outcome g leaves in the invocation
TextOf(g) == IF g.ok /\ g.valid THEN ExtractText(g.body) ELSE << >>

(* C20: the handler keeps no state across requests and caches no documents: *)
(* under any interleaving of two concurrent requests, with a store that     *)
(* changes at any moment, the response of a request is the one it gets when *)
(* run alone on its event, the documents the store returned to it and the   *)
(* generation output; and a request that began to read after the last       *)
(* change of the store has read the documents the store holds now.          *)
C20_Stateless ==
  pc = "done" =>
    /\ \E g \in GenOutcomes :
         /\ genCalls = 1 => generated = TextOf(g)
         /\ response = Alone(event, docs, g)
    /\ (getCalls > 0 /\ ~others.stale) => docs = StoreDocs

\* two requests with the same message, one answered before the store
\* changed and one after: the later one read the new documents and got
\* another reply
C20_Witness ==
  /\ pc = "done" /\ others.saved.pc = "done"
  /\ event.body.message = <<"D","o"," ","y","o","u"," ","t","e","a","c","h","?">>
  /\ others.saved.event.body.message = <<"D","o"," ","y","o","u"," ","t","e","a","c","h","?">>
  /\ ~others.stale /\ others.saved.stale
  /\ docs = StoreDocs /\ others.saved.docs # docs
  /\ others.saved.genCalls # genCalls
  /\ response # others.saved.response

\* two requests interleaved at every await of the loader: both were between
\* two reads while the other one ran
C20_Interleaved ==
  /\ pc = "object" /\ others.saved.pc = "list"
  /\ event # others.saved.event
  /\ others.saved.userName # userName

(* C21: the agent-name check has priority over the greeting check: every    *)
(* message that matches the agent-name pattern is answered with the fixed   *)
(* literal "Sensei", also when it matches the greeting pattern as well.     *)
C21_AgentNameFirst ==
  (Answered /\ wantsAgentName(bodyMessage)) => response.message = <<"S","e","n","s","e","i">>

\* a greeting word with 'assistant ... name' and no question word: greeted
C21_Witness ==
  /\ Answered
  /\ bodyMessage = <<"h","e","l","l","o"," ","a","s","s","i","s","t","a","n","t",","," ","y","o","u","r"," ","n","a","m","e">>
  /\ wantsAgentName(bodyMessage) /\ isGreeting(bodyMessage)
  /\ decision.intent = "Greeting"
  /\ StartsWith(response.message, <<"H","e","l","l","o"," ","B","o","b","!"," ","I","'","m"," ","S","e","n","s","e","i",","," ","O","u","s","s","e","i","n","i","'","s"," ","p","o","r","t","f","o","l","i","o"," ","a","s","s","i","s","t","a","n","t",".">>)

\* a message that matches the agent-name pattern and not the greeting one
C21_WithoutGreeting ==
  (Answered /\ wantsAgentName(bodyMessage) /\ ~isGreeting(bodyMessage)) =>
    response.message = <<"S","e","n","s","e","i">>
C21_WithoutGreetingReached ==
  /\ Answered /\ wantsAgentName(bodyMessage) /\ ~isGreeting(bodyMessage)
  /\ response.message = <<"S","e","n","s","e","i">>

\* the listed keys the loop reads: not empty, not a folder, not the snapshot
ReadKey(key) ==
  /\ key # << >>
  /\ ~EndsWith(key, <<"/">>)
  /\ key # <<"p","o","r","t","f","o","l","i","o","-","d","o","c","u","m","e","n","t","s",".","j","s","o","n">>
  /\ ~EndsWith(key, <<"/","p","o","r","t","f","o","l","i","o","-","d","o","c","u","m","e","n","t","s",".","j","s","o","n">>)
\* the GetObject commands of one complete load: the snapshot, then one for
\* each listed key that is read, whether the read succeeds or fails
ReadsOfLoad ==
  1 + (IF store.listable
         THEN Cardinality({k \in 1..Len(store.objects) : ReadKey(store.objects[k].key)})
         ELSE 0)

(* C22: within one request the network calls are sequential and never       *)
(* repeated: the generation is invoked at most once and only after every    *)
(* store read of the request has completed, the prefix listing is issued    *)
(* at most once and after the read of the snapshot, and no store read or    *)
(* generation call is sent again after a failure.                           *)
C22_SequentialCalls ==
  /\ genCalls <= 1 /\ listCalls <= 1
  /\ getCalls <= ReadsOfLoad
  /\ listCalls = 0 => getCalls <= 1
  /\ listCalls = 1 => getCalls >= 1
  /\ pc \in {"route", "generate"} => (listCalls = 1 /\ getCalls = ReadsOfLoad)
  /\ genCalls = 1 =>
       /\ pc = "done" /\ pending = << >>
       /\ listCalls = 1 /\ getCalls = ReadsOfLoad
  /\ (pc = "done" /\ decision.intent # "none") =>
       (listCalls = 1 /\ getCalls = ReadsOfLoad)

\* a load with a failed read and a malformed object, then a failed generation
C22_Witness ==
  /\ pc = "done"
  /\ store.objects = PrefixObjects
  /\ getCalls = 7 /\ listCalls = 1 /\ genCalls = 1
  /\ generated = << >>
  /\ response.status = 500

\* the message contains one of the configured trigger topics
HasTopic ==
  \E k \in 1..Len(ragTriggerTopics) : Includes(Lower(bodyMessage), ragTriggerTopics[k])
\* the documents of the corpus whose source is config.js, in corpus order
ConfigSourced ==
  Pick(portfolioDocs,
       {k \in 1..Len(portfolioDocs) : Lower(portfolioDocs[k].source) = <<"c","o","n","f","i","g",".","j","s">>})
Retrieving == Routed /\ decision.intent \in {"AIProject", "General"}
FromConfig == getRelevantContext(bodyMessage, ArrayOf(ConfigSourced))
FromCorpus == getRelevantContext(bodyMessage, ArrayOf(portfolioDocs))

(* C23: when the message contains none of the configured ragTriggerTopics,  *)
(* retrieval for the AIProject and General intents runs on the documents    *)
(* whose source is config.js only: the context and the sources are those of *)
(* a retrieval on these documents, so no other document contributes; when   *)
(* the message contains a trigger topic they are those of a retrieval on    *)
(* the whole corpus.                                                        *)
C23_FeatureFlag ==
  Retrieving =>
    /\ ~HasTopic =>
         (decision.context = FromConfig.context /\ decision.sources = FromConfig.sources)
    /\ HasTopic =>
         (decision.context = FromCorpus.context /\ decision.sources = FromCorpus.sources)

\* no trigger topic, and a corpus whose other documents would have been
\* selected: they are left out
C23_Witness ==
  /\ Retrieving /\ ~HasTopic
  /\ ConfigSourced # portfolioDocs
  /\ FromCorpus.context # FromConfig.context
  /\ decision.context = FromConfig.context
  /\ decision.generate

\* a trigger topic: the other documents are searched as well
C23_WholeCorpus ==
  /\ Retrieving /\ HasTopic
  /\ FromCorpus.context # FromConfig.context
  /\ decision.context = FromCorpus.context

\* the query and the documents of a direct call of the scorer
ScorerMsg == Lower(Trim(call.userMessage))
Corpus == call.portfolioDocs.items
CorpusScores == Scores(Corpus, Tokenize(ScorerMsg))
\* the documents that come before document k in descending score order,
\* ties in corpus order
Before(s, k) ==
  {j \in 1..Len(s) : s[j] > s[k] \/ (s[j] = s[k] /\ j < k)}
\* the documents with a positive score that fewer than three come before
Best(s) == {k \in 1..Len(s) : s[k] > 0 /\ Cardinality(Before(s, k)) < 3}
InOrder(s, best) ==
  [r \in 1..Cardinality(best) |-> CHOOSE k \in best : Cardinality(Before(s, k)) = r - 1]
BestDocs ==
  CHOOSE r \in {ByScore(Corpus, InOrder(s, Best(s))) : s \in {CorpusScores}} : TRUE
MainPath ==
  /\ pc = "returned"
  /\ call.portfolioDocs.isArray
  /\ ~IsScorerGreeting(ScorerMsg)
  /\ BestDocs # << >>
\* the pieces of a context are joined by the separator
Separators(context) ==
  Cardinality({i \in 1..Len(context) :
                 i + 4 <= Len(context) /\ SubSeq(context, i, i + 4) = <<"\n","-","-","-","\n">>})

(* C24: on the scorer's main path the selected documents are exactly the    *)
(* (at most 3) highest-scoring documents among those with score > 0, in     *)
(* descending score order with ties in corpus order: the context and the    *)
(* sources returned are built from these documents in that order; and on    *)
(* every path at most 3 documents contribute to the context and the         *)
(* sources.                                                                 *)
C24_TopThree ==
  pc = "returned" =>
    /\ MainPath => result = Assemble(BestDocs, Tokenize(ScorerMsg))
    /\ Len(result.sources) <= 3
    /\ Separators(result.context) <= 2

\* more than three documents score, one scores 0, two have the same score,
\* and the best one is not among the first three of the corpus
MoreThanThree(s) ==
  /\ Cardinality({k \in 1..Len(s) : s[k] > 0}) > 3
  /\ s[1] = 0
  /\ \E j, k \in Best(s) : j # k /\ s[j] = s[k]
  /\ \E k \in Best(s) : k > 3 /\ Before(s, k) = {}
C24_Witness ==
  /\ MainPath
  /\ Len(Corpus) = 6
  /\ \E s \in {CorpusScores} : MoreThanThree(s)
  /\ Len(result.sources) = 3
  /\ Separators(result.context) = 2

\* the scorer returned the greeting sentinel
SentinelReturned ==
  /\ pc = "returned"
  /\ call.portfolioDocs.isArray
  /\ result = [context |-> GreetingSentinel, sources |-> << >>]

(* C25: the scorer returns the greeting sentinel context (with empty        *)
(* sources) only when the whole message, trimmed and lower-cased, is one of *)
(* the fixed greeting phrases; a greeting phrase together with other words  *)
(* is tokenized and scored against the documents.                           *)
C25_WholeMessageOnly == SentinelReturned => ScorerMsg \in ScorerGreetings

\* a greeting followed by a question that the corpus answers: the sentinel
C25_Witness ==
  /\ SentinelReturned
  /\ call.userMessage = <<"h","e","l","l","o"," ","w","h","e","r","e"," ","i","s"," ","O","u","s","s","e","i","n","i"," ","b","a","s","e","d","?">>
  /\ call.portfolioDocs = ArrayOf(<<AboutDoc, SkillsDoc, ScrapedDoc>>)
  /\ BestDocs # << >>

\* a message that is a greeting phrase and nothing else gets the sentinel
C25_WholeGreeting ==
  (pc = "returned" /\ call.portfolioDocs.isArray /\ ScorerMsg \in ScorerGreetings)
    => SentinelReturned
C25_WholeGreetingReached ==
  SentinelReturned /\ call.userMessage = <<" ","H","e","l","l","o"," "," ">>

\* the documents whose title or content matches the teaching pattern
TeachingDocs ==
  Pick(Corpus, {k \in 1..Len(Corpus) :
                  wantsTeaching(Corpus[k].title) \/ wantsTeaching(Corpus[k].content)})
\* no document scored, or the best score is below 1.5 (3 halves)
NotConfident(s) == \A k \in 1..Len(s) : s[k] < 3
TeachingCase ==
  /\ pc = "returned"
  /\ call.portfolioDocs.isArray
  /\ ~IsScorerGreeting(ScorerMsg)
  /\ wantsTeaching(ScorerMsg)
  /\ \E s \in {CorpusScores} : NotConfident(s)
  /\ TeachingDocs # << >>

(* C26: scorer teaching fallback: when the query matches the teaching       *)
(* pattern and the best document score is below 1.5 (or no document         *)
(* scored), the selected set is replaced by the documents whose title or    *)
(* content matches the teaching pattern (at most 3, in corpus order),       *)
(* provided at least one such document exists.                              *)
C26_TeachingFallback ==
  TeachingCase =>
    result = Assemble(TakeFirst(TeachingDocs, 3), Tokenize(ScorerMsg))

\* "Do you teach?" on a corpus whose only document about teaching does not
\* score: the context comes from the Skills document
C26_Witness ==
  /\ TeachingCase
  /\ call.userMessage = <<"D","o"," ","y","o","u"," ","t","e","a","c","h","?">>
  /\ call.portfolioDocs = ArrayOf(<<SkillsDoc, AboutTwin>>)
  /\ TeachingDocs = <<AboutTwin>>
  /\ result = Assemble(<<SkillsDoc>>, Tokenize(ScorerMsg))

\* the help-further tail of a reply, with the user's name when there is one
HelpTail ==
  <<" ","H","o","w"," ","c","a","n"," ","I"," ","h","e","l","p"," ","f","u","r","t","h","e","r">> \o (IF userName = << >> THEN << >> ELSE <<","," ">> \o userName)
  \o <<"?">>
\* how many times the reply offers further help
Offers(text) ==
  Cardinality({i \in 1..Len(text) :
                 /\ i + 21 <= Len(text)
                 /\ SubSeq(text, i, i + 21) = <<"h","o","w"," ","c","a","n"," ","i"," ","h","e","l","p"," ","f","u","r","t","h","e","r">>})
Uncertain == GeneralReply /\ TestI(unknownRe, response.message)

(* C27: uncertainty tail: after sanitation, a reply whose text matches the  *)
(* uncertainty pattern ends with the help-further tail, and that tail       *)
(* occurs at most once in the reply, for every generated text and every     *)
(* user name (including generated text that already carries the tail with   *)
(* the user's name in it).                                                  *)
C27_OneTail ==
  Uncertain =>
    /\ EndsWith(response.message, HelpTail)
    /\ Offers(Lower(response.message)) <= 1

\* the generated text carries the tail with the user's name: it is added again
C27_Witness ==
  /\ Uncertain
  /\ userName = <<"B","o","b">>
  /\ generated = <<"I"," ","d","o","n","'","t"," ","k","n","o","w","."," ","H","o","w"," ","c","a","n"," ","I"," ","h","e","l","p"," ","f","u","r","t","h","e","r",","," ","B","o","b","?">>
  /\ response.message
       = <<"I"," ","d","o","n","'","t"," ","k","n","o","w","."," ","H","o","w"," ","c","a","n"," ","I"," ","h","e","l","p"," ","f","u","r","t","h","e","r",","," ","B","o","b","."," ","H","o","w"," ","c","a","n"," ","I"," ","h","e","l","p"," ","f","u","r","t","h","e","r",","," ","B","o","b","?">>

\* a generated text that offers no help gets the tail once
C27_FreshTail ==
  (Uncertain /\ Offers(Lower(generated)) = 0) =>
    /\ EndsWith(response.message, HelpTail)
    /\ Offers(Lower(response.message)) = 1
C27_FreshTailReached ==
  /\ Uncertain
  /\ generated = <<"I"," ","a","m"," ","n","o","t"," ","s","u","r","e",".">>
  /\ response.message = <<"I"," ","a","m"," ","n","o","t"," ","s","u","r","e","."," ","H","o","w"," ","c","a","n"," ","I"," ","h","e","l","p"," ","f","u","r","t","h","e","r",","," ","B","o","b","?">>

(* C28: every reply returned from the general generation path ends with     *)
(* '.', '!' or '?' (and is therefore non-empty), for every generated text,  *)
(* including text that the sanitation steps reduce to nothing.              *)
C28_EndsWithPunctuation ==
  GeneralReply =>
    /\ response.message # << >>
    /\ response.message[Len(response.message)] \in {".", "!", "?"}

\* a generated text that is one code fence: the reply is the empty string
C28_Witness ==
  /\ GeneralReply
  /\ generated = <<"backtick","backtick","backtick","j","s","\n","l","e","t"," ","x","backtick","backtick","backtick">>
  /\ response = Message(200, << >>)

\* a reply that is not empty ends with '.', '!' or '?'
C28_NonEmptyReplies ==
  (GeneralReply /\ response.message # << >>) =>
    response.message[Len(response.message)] \in {".", "!", "?"}
C28_NonEmptyReached ==
  /\ GeneralReply
  /\ generated = <<"-"," ","-"," ","A","W","S"," ","a","n","d"," ","*","*","A","z","u","r","e","*","*">>
  /\ response.message # << >>
  /\ response.message[Len(response.message)] = "."

\* the loader has returned its corpus
Returned == decision.intent # "none"
Blank(d) == d.title = << >> /\ d.content = << >>
\* an entry of a stored JSON array has neither title nor content
BlankEntryStored ==
  \/ store.legacy.body.kind = "array"
       /\ \E k \in 1..Len(store.legacy.body.items) : Blank(store.legacy.body.items[k])
  \/ \E j \in 1..Len(store.objects) :
       /\ store.objects[j].body.kind = "array"
       /\ \E k \in 1..Len(store.objects[j].body.items) :
            Blank(store.objects[j].body.items[k])

(* C29: every document in the corpus returned by the loader has a non-empty *)
(* title or a non-empty content, whatever the store holds (single JSON      *)
(* documents, JSON arrays of documents, txt/md objects).                    *)
C29_NoBlankDocument ==
  Returned => \A k \in 1..Len(portfolioDocs) : ~Blank(portfolioDocs[k])

\* a JSON array with an entry that has neither: the entry is in the corpus
C29_Witness ==
  /\ Returned
  /\ store.legacy.body = JsonArray(<<BlankDoc, SkillsDoc>>)
  /\ portfolioDocs[1] = BlankDoc
  /\ Len(portfolioDocs) = 3

\* single JSON documents and txt/md objects: no blank document comes from them
C29_OutsideArrays ==
  (Returned /\ ~BlankEntryStored) =>
    \A k \in 1..Len(portfolioDocs) : ~Blank(portfolioDocs[k])
C29_SingleBlankDropped ==
  /\ Returned
  /\ store.legacy.body = JsonObject(BlankDoc)
  /\ Len(portfolioDocs) > 0

\* a chat request whose message detectLanguage classifies as French
FrenchMessage ==
  /\ ~StatusRoute
  /\ event.body.present /\ event.body.valid /\ bodyMessage # << >>
  /\ detectLanguage(bodyMessage) = "fr"
EnglishOnly ==
  <<"B","o","n","j","o","u","r"," ","!"," ","J","e"," ","p","e","u","x"," ","r">> \o <<"e_acute">>
  \o <<"p","o","n","d","r","e"," ","u","n","i","q","u","e","m","e","n","t"," ","e","n"," ","a","n","g","l","a","i","s","."," ","P","l","e","a","s","e"," ","a","s","k"," ","y","o","u","r"," ","q","u","e","s","t","i","o","n","s"," ","i","n"," ","E","n","g","l","i","s","h","."," ","P","l","e","a","s","e"," ","t","e","l","l"," ","m","e"," ","y","o","u","r"," ","n","a","m","e"," ","s","o"," ","I"," ","c","a","n"," ","p","e","r","s","o","n","a","l","i","z","e"," ","r","e","p","l","i","e","s",".">>

(* C30: whenever detectLanguage classifies the message as French, the       *)
(* handler returns the fixed English-only disclaimer with status 200 before *)
(* any document load or routing: no store read, no generation call, and no  *)
(* intent template answers; so isFrench is false in every later step, and   *)
(* the French greeting, the redundant French safeguard and the French       *)
(* variants of the fallback messages are never returned.                    *)
C30_FrenchEarlyReturn ==
  /\ FrenchMessage =>
       /\ NoAccess
       /\ decision = NoDecision /\ docs = << >> /\ portfolioDocs = << >>
       /\ pc \in {"start", "done"}
       /\ pc = "done" => response = Message(200, EnglishOnly)
  /\ pc \in {"legacy", "list", "object", "route", "generate"} => ~isFrench
  /\ Returned =>
       /\ ~isFrench
       /\ decision.intent # "French"
       /\ ~StartsWith(decision.message, <<"B","o","n","j","o","u","r">>)
       /\ ~StartsWith(decision.message, <<"J","e"," ","n","'","a","i"," ","p","a","s">>)
       /\ ~StartsWith(decision.message, <<"A","u","c","u","n","e"," ","c","o","m","p">>)

\* a French message that the contact pattern matches: the disclaimer
C30_Witness ==
  /\ FrenchMessage
  /\ bodyMessage = <<"c","o","m","m","e","n","t"," ","c","o","n","t","a","c","t","e","r"," ","O","u","s","s","e","i","n","i">>
  /\ wantsContact(bodyMessage)
  /\ pc = "done" /\ isFrench
  /\ response = Message(200, EnglishOnly)
  /\ NoAccess

=============================================================================
